---- MODULE Spec2Model ----
(***************************************************************************)
(* hono-docs: derivation of an OpenAPI document from the route-table type  *)
(* of a Hono application (src/core/generateOpenApi.ts) and the merge step  *)
(* that applies the manual overrides (src/core/runGenerate.ts).            *)
(*                                                                         *)
(* Strings the code inspects character by character (paths, status texts)  *)
(* are sequences of one-character strings; strings the code only compares  *)
(* or copies (tag names, group names, verbs) are TLA+ strings.             *)
(***************************************************************************)
EXTENDS Integers, Sequences, FiniteSets, TLC

VARIABLES
    pc,                     \* position of the run / of the function under test
    prefix,                 \* argument `prefix` of combinePathWithPrefix
    routePath,              \* argument `routePath` / `path` of the path helpers
    out,                    \* result of the first application
    out2,                   \* result of normalizePathToOpenApi applied to `out`
    variants,               \* branches of one verb (unwrapUnion(methodProp.getType()))
    responses,              \* op.responses built from `variants`
    config,                 \* the configuration the config file exports
    routesNode,             \* second type argument of the AppType alias
    documentation,          \* doc() markers written in the route source file
    literalsWithPrefixes,   \* result of parseAppTypeRoutes
    json,                   \* `paths` of the intermediate document of the group
    merged,                 \* `paths` of the final document
    configFile,             \* state of the configuration file on disk
    topTypeNode,            \* the type node of the AppType alias
    sourceCalls,            \* call expressions of the route source file
    sourceReads,            \* how the reads of the route source file go in this run
    files,                  \* snapshot, intermediate and final file on disk
    error,                  \* the error the run was aborted with ("" when none)
    exitCode,               \* exit code of the CLI (-1 while it runs)
    merged2,                \* `paths` of the final document of a second merge
    docCall,                \* a route call of the source file carrying a doc() marker
    docFound,               \* the markers extracted from `docCall`
    inputType,              \* argument `type` of buildSchema
    builtSchema,            \* what buildSchema(type) returned
    options,                \* the options serveOpenAPI was created with
    disk,                   \* what a request to the middleware finds and meets
    outputFile,             \* the final document on disk during the request
    generateCalls,          \* number of calls of runGenerate by the middleware
    response,               \* the response of the middleware
    opBefore,               \* the operation handed to cleanDefaultResponse
    opAfter                 \* the operation after cleanDefaultResponse

pathVars == <<prefix, routePath, out, out2>>

respVars == <<variants, responses>>

runVars == <<config, routesNode, documentation, literalsWithPrefixes, json, merged,
             configFile, topTypeNode, sourceCalls, sourceReads, files, error,
             exitCode, merged2>>

docVars == <<docCall, docFound>>

schemaVars == <<inputType, builtSchema>>

serveVars == <<options, disk, outputFile, generateCalls, response>>

cleanVars == <<opBefore, opAfter>>

\* the variables each specification leaves alone
notPathVars == <<respVars, runVars, docVars, schemaVars, serveVars, cleanVars>>
notRespVars == <<pathVars, runVars, docVars, schemaVars, serveVars, cleanVars>>
notRunVars == <<pathVars, respVars, docVars, schemaVars, serveVars, cleanVars>>
notDocVars == <<pathVars, respVars, runVars, schemaVars, serveVars, cleanVars>>
notSchemaVars == <<pathVars, respVars, runVars, docVars, serveVars, cleanVars>>
notServeVars == <<pathVars, respVars, runVars, docVars, schemaVars, cleanVars>>
notCleanVars == <<pathVars, respVars, runVars, docVars, schemaVars, serveVars>>

vars ==
    <<pc, pathVars, respVars, runVars, docVars, schemaVars, serveVars, cleanVars>>

(***************************************************************************)
(* Bounds                                                                  *)
(***************************************************************************)
MaxPathLen == 4
MaxPrefixLen == 3
MaxBranches == 3
MaxApi == 2
MaxDepth == 1
MaxCalls == 2
MaxLines == 3
MaxMembers == 3
MaxExcludes == 2

(***************************************************************************)
(* Character strings                                                       *)
(***************************************************************************)
Str(S, n) == UNION { [1..k -> S] : k \in 0..n }

PathChars == {"/", ":", "a", "{", "}"}
PrefixChars == {"/", "a"}

startsWith(s, c) == Len(s) > 0 /\ s[1] = c

endsWith(s, c) == Len(s) > 0 /\ s[Len(s)] = c

\* the text has two adjacent '/'
HasDoubleSlash(s) == \E i \in 1..(Len(s) - 1) : s[i] = "/" /\ s[i + 1] = "/"

\* the text still holds a ':name' token, i.e. a ':' followed by a character
\* of the same path segment
HasParamToken(s) == \E i \in 1..(Len(s) - 1) : s[i] = ":" /\ s[i + 1] # "/"

\* index of the last character of the run of non-'/' characters starting at i
RECURSIVE SegEnd(_, _)
SegEnd(s, i) ==
    IF i < Len(s) /\ s[i + 1] # "/" THEN SegEnd(s, i + 1) ELSE i

\* path.replace(/:([^/]+)/g, '{$1}'): leftmost match first, [^/]+ greedy, the
\* scan resumes after the match
RECURSIVE ReplaceParamsFrom(_, _)
ReplaceParamsFrom(s, i) ==
    IF i > Len(s) THEN <<>>
    ELSE IF s[i] = ":" /\ i < Len(s) /\ s[i + 1] # "/"
         THEN LET j == SegEnd(s, i + 1)
              IN  <<"{">> \o SubSeq(s, i + 1, j) \o <<"}">>
                      \o ReplaceParamsFrom(s, j + 1)
         ELSE <<s[i]>> \o ReplaceParamsFrom(s, i + 1)

normalizePathToOpenApi(path) == ReplaceParamsFrom(path, 1)

combinePathWithPrefix_NoRootCheck(pre, rp) ==
    IF pre = <<>> THEN rp
    ELSE IF rp = <<"/">> THEN pre
    ELSE pre \o (IF startsWith(rp, "/") THEN rp ELSE <<"/">> \o rp)

combinePathWithPrefix(pre, rp) ==
    IF pre = <<"/">> \/ pre = <<>> THEN rp
    ELSE IF rp = <<"/">> THEN pre
    ELSE pre \o (IF startsWith(rp, "/") THEN rp ELSE <<"/">> \o rp)


(***************************************************************************)
(* Schemas and responses of one verb                                       *)
(***************************************************************************)
\* a schema object; `keys` lists the properties that are present
NoSchemaFields ==
    [keys |-> {}, type |-> "", oneOf |-> <<>>, enum |-> <<>>,
     nullable |-> FALSE, items |-> <<>>, properties |-> <<>>,
     required |-> <<>>]
PrimSchema(t) == [NoSchemaFields EXCEPT !.keys = {"type"}, !.type = t]
EmptySchema == NoSchemaFields
OneOfSchema(ss) == [NoSchemaFields EXCEPT !.keys = {"oneOf"}, !.oneOf = ss]
\* {type: "string", enum: values} and nullable: true when asked
EnumSchema(values, nullable) ==
    [NoSchemaFields EXCEPT
        !.keys = {"type", "enum"} \cup (IF nullable THEN {"nullable"} ELSE {}),
        !.type = "string", !.enum = values, !.nullable = nullable]
\* {type: "array", items: s}; `items` holds the one schema
ArraySchema(s) ==
    [NoSchemaFields EXCEPT !.keys = {"type", "items"}, !.type = "array",
                           !.items = <<s>>]
\* {type: "object", properties, required?}; `properties` lists
\* [name, schema] in insertion order
ObjectSchema(props, req) ==
    [NoSchemaFields EXCEPT
        !.keys = {"type", "properties"}
                    \cup (IF Len(req) > 0 THEN {"required"} ELSE {}),
        !.type = "object", !.properties = props, !.required = req]

\* resolved types, named by the ts-morph predicate that answers true
StringType == [kind |-> "string"]
NumberType == [kind |-> "number"]
BooleanType == [kind |-> "boolean"]
NullType == [kind |-> "null"]
UndefinedType == [kind |-> "undefined"]
\* a type without TypeLiteral / InterfaceDeclaration declaration
OtherType == [kind |-> "other"]
StringLiteralType(value) == [kind |-> "stringLiteral", value |-> value]
ArrayOf(element) == [kind |-> "array", element |-> element]
UnionOf(types) == [kind |-> "union", types |-> types]
\* a type literal or interface; `properties` lists
\* [name, type, optional] of its property signatures
ObjectType(properties) == [kind |-> "object", properties |-> properties]
Property(name, t, optional) ==
    [name |-> name, type |-> t, optional |-> optional]

isStringLiteral(u) == u.kind = "stringLiteral"

isNullish_NullOnly(u) == u.kind = "null"

\* u.isNull() || u.isUndefined()
isNullish(u) == u.kind \in {"null", "undefined"}

isNotNullish(u) == ~isNullish(u)

isNotOptional(p) == ~p.optional

RECURSIVE buildSchema(_)
buildSchema(type) ==
    IF type.kind = "union"
    THEN LET members == type.types
             lits == SelectSeq(members, isStringLiteral)
             onlyNull == \A i \in 1..Len(members) :
                             isStringLiteral(members[i]) \/ isNullish(members[i])
             nonNull == SelectSeq(members, isNotNullish)
         IN  IF Len(lits) > 0 /\ onlyNull
             THEN EnumSchema([i \in 1..Len(lits) |-> lits[i].value],
                             \E i \in 1..Len(members) : isNullish(members[i]))
             ELSE OneOfSchema([i \in 1..Len(nonNull) |->
                                  buildSchema(nonNull[i])])
    ELSE IF type.kind \in {"string", "number", "boolean"}
    THEN PrimSchema(type.kind)
    ELSE IF type.kind = "array"
    THEN ArraySchema(buildSchema(type.element))
    ELSE IF type.kind # "object"
    THEN EmptySchema
    ELSE LET props == type.properties
             req == SelectSeq(props, isNotOptional)
         IN  ObjectSchema([i \in 1..Len(props) |->
                              [name |-> props[i].name,
                               schema |-> buildSchema(props[i].type)]],
                          [i \in 1..Len(req) |-> req[i].name])

Digits == {"0", "1", "2", "3", "4", "5", "6", "7", "8", "9"}

\* /^\d+$/.test(s)
IsDigits(s) == Len(s) > 0 /\ \A i \in 1..Len(s) : s[i] \in Digits

DefaultKey == <<"d", "e", "f", "a", "u", "l", "t">>

StatusKey_NoDefault(v) == v.status

\* the key function handed to groupBy: the text of the status type when it
\* is all digits, 'default' otherwise
StatusKey(v) == IF IsDigits(v.status) THEN v.status ELSE DefaultKey

\* arr.reduce((acc, x) => { (acc[fn(x)] ||= []).push(x); return acc }, {})
RECURSIVE groupByFrom(_, _, _)
groupByFrom(arr, i, acc) ==
    IF i > Len(arr) THEN acc
    ELSE LET k == StatusKey(arr[i])
         IN  groupByFrom(arr, i + 1,
                 IF k \in DOMAIN acc
                 THEN [acc EXCEPT ![k] = Append(@, arr[i])]
                 ELSE acc @@ (k :> <<arr[i]>>))

groupBy(arr) == groupByFrom(arr, 1, <<>>)

\* the `content` property of a response: whether it is there and the
\* media types it holds; `schema` is the schema under application/json
JsonContent == [defined |-> TRUE, keys |-> <<"application/json">>]
EmptyContent == [defined |-> TRUE, keys |-> <<>>]
NoContent == [defined |-> FALSE, keys |-> <<>>]

ResponseDescription(code) ==
    IF code = DefaultKey THEN <<"Default fallback response">>
    ELSE <<"Status ">> \o code

\* op.responses of one verb
BuildResponses(vs) ==
    LET byStatus == groupBy(vs)
    IN  [code \in DOMAIN byStatus |->
            LET schemas == [i \in 1..Len(byStatus[code]) |->
                               buildSchema(byStatus[code][i].output)]
            IN  [description |-> ResponseDescription(code),
                 content |-> JsonContent,
                 schema |-> IF Len(schemas) > 1 THEN OneOfSchema(schemas)
                            ELSE schemas[1]]]

(***************************************************************************)
(* The type graph of the AppType alias and the Walker                      *)
(***************************************************************************)
TypeLiteral(id, members) ==
    [kind |-> "TypeLiteral", id |-> id, members |-> members]
IntersectionType(types) == [kind |-> "IntersectionType", types |-> types]
UnionType(types) == [kind |-> "UnionType", types |-> types]
\* import("...").Qualifier<typeArgs>; qualifier "" when the node has none
ImportType(qualifier, typeArgs) ==
    [kind |-> "ImportType", qualifier |-> qualifier, typeArgs |-> typeArgs]
\* a string literal type; its text carries the quotes
LiteralType(text) == [kind |-> "LiteralType", text |-> text]
TypeReference == [kind |-> "TypeReference"]

Quoted(s) == <<"\"">> \o s \o <<"\"">>

\* text.replace(/"/g, "")
StripQuotes(text) == SelectSeq(text, LAMBDA c : c # "\"")

\* the type literals among the members of an intersection, at one prefix
LiteralMembers(types, pre) ==
    LET lits == SelectSeq(types, LAMBDA t : t.kind = "TypeLiteral")
    IN  [i \in 1..Len(lits) |-> [literal |-> lits[i], prefix |-> pre]]

RECURSIVE extractTypeLiteralsFromUnion(_, _)
RECURSIVE ExtractFromMembers(_, _, _)
RECURSIVE ExtractFromMember(_, _)

extractTypeLiteralsFromUnion(unionNode, currentPrefix) ==
    IF unionNode.kind # "UnionType" THEN <<>>
    ELSE ExtractFromMembers(unionNode.types, 1, currentPrefix)

\* the loop over the members of the union
ExtractFromMembers(types, i, currentPrefix) ==
    IF i > Len(types) THEN <<>>
    ELSE ExtractFromMember(types[i], currentPrefix)
             \o ExtractFromMembers(types, i + 1, currentPrefix)

\* the body of the loop: what one member of the union contributes
ExtractFromMember(member, currentPrefix) ==
    IF member.kind = "TypeLiteral"
    THEN <<[literal |-> member, prefix |-> currentPrefix]>>
    ELSE IF member.kind = "ImportType"
    THEN IF member.qualifier = "MergeSchemaPath" /\ Len(member.typeArgs) >= 2
         THEN LET schema == member.typeArgs[1]
                  pathPrefix == StripQuotes(member.typeArgs[2].text)
                  fullPrefix == currentPrefix \o pathPrefix
              IN  IF schema.kind = "IntersectionType"
                  THEN LiteralMembers(schema.types, fullPrefix)
                  ELSE extractTypeLiteralsFromUnion(schema, fullPrefix)
         ELSE <<>>
    ELSE IF member.kind = "IntersectionType"
    THEN LiteralMembers(member.types, currentPrefix)
    ELSE <<>>

(***************************************************************************)
(* JavaScript objects and maps                                             *)
(***************************************************************************)
\* an object with string keys: `keys` is the insertion order of the keys
\* and `val` the value of each
Has(obj, k) == k \in DOMAIN obj.val

Put(obj, k, v) ==
    IF Has(obj, k) THEN [obj EXCEPT !.val[k] = v]
    ELSE [keys |-> Append(obj.keys, k), val |-> obj.val @@ (k :> v)]

\* Map.prototype.set and Map.prototype.get (undef when the key is absent)
MapSet(m, k, v) == IF k \in DOMAIN m THEN [m EXCEPT ![k] = v] ELSE m @@ (k :> v)

MapGet(m, k, undef) == IF k \in DOMAIN m THEN m[k] ELSE undef

Range(seq) == { seq[i] : i \in 1..Len(seq) }

toLowerCase(w) ==
    CASE w \in {"get", "GET"} -> "get"
      [] w \in {"post", "POST"} -> "post"
      [] OTHER -> w

toUpperCase(w) ==
    CASE w \in {"get", "GET"} -> "GET"
      [] w \in {"post", "POST"} -> "POST"
      [] OTHER -> w

\* name.slice(1) of the member names "$get", "$post"
Slice1(name) ==
    CASE name = "$get" -> "get"
      [] name = "$post" -> "post"
      [] OTHER -> name

(***************************************************************************)
(* Documentation lookup and the Synthesizer                                *)
(***************************************************************************)
\* a DocConfig; an empty summary, description or tag list stands for a
\* property that is absent, deprecated FALSE for absent or false
DocConfig(summary, description, tags, deprecated) ==
    [defined |-> TRUE, summary |-> summary, description |-> description,
     tags |-> tags, deprecated |-> deprecated]

\* the result of docLookup.get for a key that is not in the map
NoDocConfig ==
    [defined |-> FALSE, summary |-> <<>>, description |-> <<>>,
     tags |-> <<>>, deprecated |-> FALSE]

RECURSIVE createDocLookupFrom(_, _, _)
createDocLookupFrom(docs, i, lookup) ==
    IF i > Len(docs) THEN lookup
    ELSE createDocLookupFrom(docs, i + 1,
             MapSet(lookup, <<docs[i].method, docs[i].route>>, docs[i].docConfig))

\* key `${doc.method}:${doc.route}`, modelled as the pair (method, route)
createDocLookup(docs) == createDocLookupFrom(docs, 1, <<>>)

\* an operation object; an empty description, tag list, parameter list or
\* request body stands for a property that is absent (the verbs of the route
\* tables below declare no `input`, so genParameters returns [] and
\* genRequestBody null)
NewOperation ==
    [summary |-> <<>>, description |-> <<>>, tags |-> <<>>,
     deprecated |-> FALSE, parameters |-> <<>>, requestBody |-> <<>>,
     responses |-> <<>>]

applyDocumentationToOperation(operation, docConfig, fallbackSummary, apiGroupName) ==
    IF docConfig.defined
    THEN [operation EXCEPT
            !.summary = IF docConfig.summary # <<>> THEN docConfig.summary
                        ELSE fallbackSummary,
            !.description = IF docConfig.description # <<>>
                            THEN docConfig.description ELSE @,
            !.tags = IF Len(docConfig.tags) > 0 THEN docConfig.tags ELSE @,
            !.deprecated = IF docConfig.deprecated THEN TRUE ELSE @]
    ELSE [operation EXCEPT !.summary = fallbackSummary,
                           !.tags = <<apiGroupName>>]

\* `Auto-generated ${http.toUpperCase()} ${route}`
AutoSummary(http, route) == <<"Auto-generated ", toUpperCase(http), " ">> \o route

\* the operation built for one verb member of a route
TypedOperation(methodProp, raw, route, docLookup) ==
    LET http == toLowerCase(Slice1(methodProp.name))
        docConfig == MapGet(docLookup, <<http, raw>>, NoDocConfig)
        op == applyDocumentationToOperation(NewOperation, docConfig,
                  AutoSummary(http, route), "API")
    IN  [op EXCEPT !.responses = BuildResponses(methodProp.variants)]

\* the loop over the verb members of one route
RECURSIVE ProcessMethods(_, _, _, _, _, _)
ProcessMethods(methods, i, raw, route, docLookup, paths) ==
    IF i > Len(methods) THEN paths
    ELSE LET http == toLowerCase(Slice1(methods[i].name))
             op == TypedOperation(methods[i], raw, route, docLookup)
         IN  ProcessMethods(methods, i + 1, raw, route, docLookup,
                 [paths EXCEPT !.val[route] = Put(@, http, op)])

\* the loop over the route members of one type literal
RECURSIVE ProcessMembers(_, _, _, _, _)
ProcessMembers(members, i, pre, docLookup, paths) ==
    IF i > Len(members) THEN paths
    ELSE LET raw == StripQuotes(members[i].name)
             routeWithPrefix == combinePathWithPrefix(pre, raw)
             route == normalizePathToOpenApi(routeWithPrefix)
             paths1 == IF Has(paths, route) THEN paths
                       ELSE Put(paths, route, [keys |-> <<>>, val |-> <<>>])
             tn == members[i].typeNode
         IN  ProcessMembers(members, i + 1, pre, docLookup,
                 IF tn.kind # "TypeLiteral" THEN paths1
                 ELSE ProcessMethods(tn.members, 1, raw, route, docLookup, paths1))

\* the loop over the entries the Walker returned
RECURSIVE ProcessEntries(_, _, _, _)
ProcessEntries(entries, i, docLookup, paths) ==
    IF i > Len(entries) THEN paths
    ELSE ProcessEntries(entries, i + 1, docLookup,
             ProcessMembers(entries[i].literal.members, 1, entries[i].prefix,
                            docLookup, paths))

processTypedRoutes(entries, docLookup, paths) ==
    ProcessEntries(entries, 1, docLookup, paths)

(***************************************************************************)
(* The source-text fallback of a 'no routes' placeholder                   *)
(***************************************************************************)
\* a call expression of the route source file: `access` when the callee is
\* a property access (x.name(...)), `name` the property or identifier that
\* is called, `args` the argument nodes
CallExpression(access, name, args) ==
    [access |-> access, name |-> name, args |-> args]

\* argument nodes; the text of a string literal carries its quotes
StringLiteral(text) == [kind |-> "StringLiteral", text |-> text]
TemplateLiteral(text) == [kind |-> "NoSubstitutionTemplateLiteral", text |-> text]
ArrowFunction == [kind |-> "ArrowFunction", text |-> <<>>]

httpMethods == {"get", "post", "put", "patch", "delete", "head", "options"}

\* text.replace(/['"]/g, '')
StripAllQuotes(text) == SelectSeq(text, LAMBDA c : c \notin {"'", "\""})

\* the operation the scanner builds for one call
SimpleOperation(methodName, normalizedPath) ==
    [NewOperation EXCEPT
        !.summary = AutoSummary(methodName, normalizedPath),
        !.responses = (DefaultKey :>
                          [description |-> <<"Default fallback response">>,
                           content |-> JsonContent,
                           schema |-> PrimSchema("object")])]

\* the loop over the call expressions of the file
RECURSIVE ExtractSimpleRoutesFrom(_, _, _)
ExtractSimpleRoutesFrom(calls, i, routes) ==
    IF i > Len(calls) THEN routes
    ELSE LET call == calls[i]
             methodName == toLowerCase(call.name)
         IN  ExtractSimpleRoutesFrom(calls, i + 1,
                 IF /\ call.access
                    /\ methodName \in httpMethods
                    /\ Len(call.args) >= 2
                    /\ call.args[1].kind = "StringLiteral"
                 THEN LET path == StripAllQuotes(call.args[1].text)
                          normalizedPath == ReplaceParamsFrom(path, 1)
                          routes1 == IF Has(routes, normalizedPath) THEN routes
                                     ELSE Put(routes, normalizedPath,
                                              [keys |-> <<>>, val |-> <<>>])
                      IN  [routes1 EXCEPT !.val[normalizedPath] =
                              Put(@, methodName,
                                  SimpleOperation(methodName, normalizedPath))]
                 ELSE routes)

extractSimpleRoutesFromSource(calls) ==
    ExtractSimpleRoutesFrom(calls, 1, [keys |-> <<>>, val |-> <<>>])

\* the value `undefined`, written as the text string concatenation renders
\* it with (undefined + "/a" is "undefined/a")
undefined == <<"undefined">>

\* apiGroup.apiPrefix
ApiPrefixOf(apiGroup) ==
    IF "apiPrefix" \in DOMAIN apiGroup THEN apiGroup.apiPrefix ELSE undefined

\* TypeError of undefined.replace(...) in normalizePathToOpenApi
TypeErrorReplace == "TypeError: Cannot read properties of undefined (reading 'replace')"

\* the loop over the verbs of one scanned route
RECURSIVE ProcessSimpleMethods(_, _, _, _, _, _, _)
ProcessSimpleMethods(methods, i, path, normalizedPath, apiGroup, docLookup, paths) ==
    IF i > Len(methods.keys) THEN paths
    ELSE LET method == methods.keys[i]
             operation == methods.val[method]
             docConfig == MapGet(docLookup, <<method, path>>, NoDocConfig)
             op == applyDocumentationToOperation(operation, docConfig,
                       operation.summary, apiGroup.name)
         IN  ProcessSimpleMethods(methods, i + 1, path, normalizedPath, apiGroup,
                 docLookup, [paths EXCEPT !.val[normalizedPath] = Put(@, method, op)])

\* the loop over the scanned routes; `error` is the exception that ends it
RECURSIVE ProcessSimpleRoutesFrom(_, _, _, _, _)
ProcessSimpleRoutesFrom(simpleRoutes, i, apiGroup, docLookup, paths) ==
    IF i > Len(simpleRoutes.keys) THEN [paths |-> paths, error |-> ""]
    ELSE LET path == simpleRoutes.keys[i]
             prefixedPath == combinePathWithPrefix(ApiPrefixOf(apiGroup), path)
         IN  IF prefixedPath = undefined
             THEN [paths |-> paths, error |-> TypeErrorReplace]
             ELSE LET normalizedPath == normalizePathToOpenApi(prefixedPath)
                      paths1 == IF Has(paths, normalizedPath) THEN paths
                                ELSE Put(paths, normalizedPath,
                                         [keys |-> <<>>, val |-> <<>>])
                  IN  ProcessSimpleRoutesFrom(simpleRoutes, i + 1, apiGroup, docLookup,
                          ProcessSimpleMethods(simpleRoutes.val[path], 1, path,
                              normalizedPath, apiGroup, docLookup, paths1))

processSimpleRoutes(simpleRoutes, apiGroup, docLookup, paths) ==
    ProcessSimpleRoutesFrom(simpleRoutes, 1, apiGroup, docLookup, paths)

(***************************************************************************)
(* generateOpenApi                                                         *)
(***************************************************************************)
\* the type node of the AppType alias: its kind ("NoAlias" when the file
\* declares no such alias) and the number of its type arguments; the second
\* type argument is the routes node
TopTypeNode(kind, typeArgs) == [kind |-> kind, typeArgs |-> typeArgs]

NoAliasError == "Expected to find type alias named 'AppType'."
TopKindError == "AppType must be an ImportType or a TypeReference"
TypeArgsError == "Expected two type arguments on HonoBase"
RoutesKindError == "Routes type is not a literal, intersection, or union of literals"
FileNotFoundError == "File not found"
MissingFileError == "Missing OpenAPI file"

parseAppTypeRoutes_NoThrow(top, node, calls, addOk) ==
    LET result(entries, simple, err) ==
            [literalsWithPrefixes |-> entries, simpleRoutes |-> simple, error |-> err]
        none == [keys |-> <<>>, val |-> <<>>]
    IN  IF node.kind = "IntersectionType"
        THEN result(LiteralMembers(node.types, <<>>), none, "")
        ELSE IF node.kind = "UnionType"
        THEN result(extractTypeLiteralsFromUnion(node, <<>>), none, "")
        ELSE IF node.kind = "TypeLiteral"
        THEN result(<<[literal |-> node, prefix |-> <<>>]>>, none, "")
        ELSE IF node.kind = "ImportType" /\ addOk
        THEN result(<<>>, extractSimpleRoutesFromSource(calls), "")
        ELSE result(<<>>, none, "")

\* the entries of the routes node, the routes scanned from the source text
\* (simpleRoutes) and the error thrown; addOk tells whether the route source
\* file can be added to the project
parseAppTypeRoutes(top, node, calls, addOk) ==
    LET result(entries, simple, err) ==
            [literalsWithPrefixes |-> entries, simpleRoutes |-> simple, error |-> err]
        none == [keys |-> <<>>, val |-> <<>>]
    IN  IF top.kind = "NoAlias" THEN result(<<>>, none, NoAliasError)
        ELSE IF top.kind \notin {"TypeReference", "ImportType"}
        THEN result(<<>>, none, TopKindError)
        ELSE IF top.typeArgs < 2 THEN result(<<>>, none, TypeArgsError)
        ELSE IF node.kind = "IntersectionType"
        THEN result(LiteralMembers(node.types, <<>>), none, "")
        ELSE IF node.kind = "UnionType"
        THEN result(extractTypeLiteralsFromUnion(node, <<>>), none, "")
        ELSE IF node.kind = "TypeLiteral"
        THEN result(<<[literal |-> node, prefix |-> <<>>]>>, none, "")
        ELSE IF node.kind = "ImportType"
        THEN IF addOk THEN result(<<>>, extractSimpleRoutesFromSource(calls), "")
             ELSE result(<<>>, none, FileNotFoundError)
        ELSE result(<<>>, none, RoutesKindError)

\* the markers extractDocumentationFromMiddleware returns: a call expression
\* that cannot be processed is skipped (here the first marker's)
extractDocumentationFromMiddleware(docs, outcome) ==
    IF outcome = "callFails" /\ docs # <<>> THEN Tail(docs) ELSE docs

loadDocumentationFromMiddleware_NoCatch(docs, outcome) ==
    IF outcome = "addFails" THEN [lookup |-> <<>>, error |-> FileNotFoundError]
    ELSE [lookup |-> createDocLookup(extractDocumentationFromMiddleware(docs, outcome)),
          error |-> ""]

\* the lookup of the markers; a failure to add the file is caught and gives
\* the empty map
loadDocumentationFromMiddleware(docs, outcome) ==
    IF outcome = "addFails" THEN [lookup |-> <<>>, error |-> ""]
    ELSE [lookup |-> createDocLookup(extractDocumentationFromMiddleware(docs, outcome)),
          error |-> ""]

\* the entries of the Walker, the `paths` of the intermediate document and
\* the error generateOpenApi is rejected with ("" when it writes the file)
generateOpenApi(top, node, calls, docs, reads, apiGroup) ==
    LET loaded == loadDocumentationFromMiddleware(docs, reads.docs)
        docLookup == loaded.lookup
        parsed == parseAppTypeRoutes(top, node, calls, reads.routes)
        simple == IF parsed.error # "" THEN [paths |-> [keys |-> <<>>, val |-> <<>>], error |-> ""]
                  ELSE processSimpleRoutes(parsed.simpleRoutes, apiGroup, docLookup,
                                           [keys |-> <<>>, val |-> <<>>])
    IN  IF loaded.error # ""
        THEN [literalsWithPrefixes |-> <<>>, paths |-> simple.paths, error |-> loaded.error]
        ELSE IF parsed.error # ""
        THEN [literalsWithPrefixes |-> <<>>, paths |-> simple.paths, error |-> parsed.error]
        ELSE IF simple.error # ""
        THEN [literalsWithPrefixes |-> <<>>, paths |-> simple.paths, error |-> simple.error]
        ELSE [literalsWithPrefixes |-> parsed.literalsWithPrefixes,
              paths |-> processTypedRoutes(parsed.literalsWithPrefixes, docLookup,
                                           simple.paths),
              error |-> ""]

(***************************************************************************)
(* The Merger                                                              *)
(***************************************************************************)
\* s.replace(/\/+$/, "")
TrimTrailingSlashes_Keep(s) == s

RECURSIVE TrimTrailingSlashes(_)
TrimTrailingSlashes(s) ==
    IF endsWith(s, "/") THEN TrimTrailingSlashes(SubSeq(s, 1, Len(s) - 1)) ELSE s

\* customApi.api.replace(/\/+$/, "") || "/"
FullPath(api) ==
    LET t == TrimTrailingSlashes(api) IN IF t = <<>> THEN <<"/">> ELSE t

\* the result of customApiMap.get for a key that is not in the map
NoCustomApi ==
    [defined |-> FALSE, api |-> <<>>, method |-> "", summary |-> <<>>,
     description |-> <<>>, tag |-> <<>>]

\* key `${method.toLowerCase()} ${fullPath}`, modelled as the pair
RECURSIVE BuildCustomApiMap(_, _, _)
BuildCustomApiMap(api, i, m) ==
    IF i > Len(api) THEN m
    ELSE BuildCustomApiMap(api, i + 1,
             MapSet(m, <<toLowerCase(api[i].method), FullPath(api[i].api)>>, api[i]))

\* desc.includes("import("): descriptions are sequences of text chunks
IncludesImport(desc) == "import(" \in Range(desc)

cleanDefaultResponse_KeepEmpty(operation) ==
    IF DefaultKey \notin DOMAIN operation.responses THEN operation
    ELSE IF ~IncludesImport(operation.responses[DefaultKey].description)
    THEN operation
    ELSE [operation EXCEPT
            !.responses[DefaultKey].description = <<"Default fallback response">>]

cleanDefaultResponse(operation) ==
    IF DefaultKey \notin DOMAIN operation.responses THEN operation
    ELSE LET defaultResponse == operation.responses[DefaultKey]
             content == defaultResponse.content
         IN  IF ~IncludesImport(defaultResponse.description) THEN operation
             ELSE IF content.defined /\ Len(content.keys) > 0
             THEN [operation EXCEPT
                     !.responses[DefaultKey].description =
                         <<"Default fallback response">>]
             ELSE [operation EXCEPT
                     !.responses = [code \in DOMAIN @ \ {DefaultKey} |-> @[code]]]

\* the body of the loop over the operations of one path
MergeOperation(operation, customApi, apiGroup) ==
    LET op1 ==
            IF customApi.defined
            THEN [operation EXCEPT
                    !.summary = IF customApi.summary # <<>>
                                THEN customApi.summary ELSE @,
                    !.description = IF customApi.description # <<>>
                                    THEN customApi.description ELSE @,
                    !.tags = IF Len(customApi.tag) > 0 THEN customApi.tag
                             ELSE <<apiGroup.name>>]
            ELSE [operation EXCEPT
                    !.tags = IF apiGroup.name \in Range(@) THEN @
                             ELSE Append(@, apiGroup.name)]
    IN  cleanDefaultResponse(op1)

RECURSIVE MergeMethods(_, _, _, _, _, _)
MergeMethods(operations, i, apiPath, customApiMap, apiGroup, paths) ==
    IF i > Len(operations.keys) THEN paths
    ELSE LET method == operations.keys[i]
             opKey == <<toLowerCase(method), apiPath>>
             customApi == MapGet(customApiMap, opKey, NoCustomApi)
             op == MergeOperation(operations.val[method], customApi, apiGroup)
         IN  MergeMethods(operations, i + 1, apiPath, customApiMap, apiGroup,
                 [paths EXCEPT !.val[apiPath] = Put(@, method, op)])

RECURSIVE MergePathsFrom(_, _, _, _, _)
MergePathsFrom(jsonPaths, i, customApiMap, apiGroup, paths) ==
    IF i > Len(jsonPaths.keys) THEN paths
    ELSE LET pathKey == jsonPaths.keys[i]
             apiPath == pathKey
             paths1 == IF Has(paths, apiPath) THEN paths
                       ELSE Put(paths, apiPath, [keys |-> <<>>, val |-> <<>>])
         IN  MergePathsFrom(jsonPaths, i + 1, customApiMap, apiGroup,
                 MergeMethods(jsonPaths.val[pathKey], 1, apiPath, customApiMap,
                              apiGroup, paths1))

\* the group runGenerate builds from the flattened configuration
ApiGroupOf(cfg) ==
    [name |-> cfg.name, api |-> cfg.api, excludePaths |-> cfg.excludePaths]

RECURSIVE Reverse(_)
Reverse(seq) == IF seq = <<>> THEN <<>> ELSE Append(Reverse(Tail(seq)), Head(seq))

MergePaths_FromLast(jsonPaths, cfg) ==
    LET apiGroup == ApiGroupOf(cfg)
        customApiMap == BuildCustomApiMap(apiGroup.api, 1, <<>>)
    IN  MergePathsFrom([jsonPaths EXCEPT !.keys = Reverse(@)], 1, customApiMap,
                       apiGroup, [keys |-> <<>>, val |-> <<>>])

\* `paths` of the final document
MergePaths(jsonPaths, cfg) ==
    LET apiGroup == ApiGroupOf(cfg)
        customApiMap == BuildCustomApiMap(apiGroup.api, 1, <<>>)
    IN  MergePathsFrom(jsonPaths, 1, customApiMap, apiGroup,
                       [keys |-> <<>>, val |-> <<>>])

(***************************************************************************)
(* Values of the variables a specification does not use                    *)
(***************************************************************************)
NoConfig == [name |-> "", api |-> <<>>, apiPrefix |-> <<>>, excludePaths |-> <<>>]
NoOptions == [config |-> "", regenerate |-> "unset"]
NoDisk == [configFound |-> FALSE, configLoad |-> "ok", output |-> "absent",
           runGenerate |-> "writes"]
NoResponse == [status |-> 0, error |-> "", details |-> "", json |-> ""]
NoNode == [kind |-> "None"]
EmptyObject == [keys |-> <<>>, val |-> <<>>]

IdlePaths ==
    /\ prefix = <<>>
    /\ routePath = <<>>
    /\ out = <<>>
    /\ out2 = <<>>

IdleResponses ==
    /\ variants = <<>>
    /\ responses = <<>>

NoFiles == [snapshot |-> "absent", openapi |-> "absent", output |-> "absent"]
AllReadsOk == [types |-> TRUE, docs |-> "ok", routes |-> TRUE]

IdleSchema ==
    /\ inputType = OtherType
    /\ builtSchema = EmptySchema

IdleServe ==
    /\ options = NoOptions
    /\ disk = NoDisk
    /\ outputFile = "absent"
    /\ generateCalls = 0
    /\ response = NoResponse

IdleClean ==
    /\ opBefore = NewOperation
    /\ opAfter = NewOperation

IdleDocs ==
    /\ docCall = NoNode
    /\ docFound = <<>>

IdleRun ==
    /\ config = NoConfig
    /\ routesNode = NoNode
    /\ documentation = <<>>
    /\ literalsWithPrefixes = <<>>
    /\ json = EmptyObject
    /\ merged = EmptyObject
    /\ configFile = "ok"
    /\ topTypeNode = NoNode
    /\ sourceCalls = <<>>
    /\ sourceReads = AllReadsOk
    /\ files = NoFiles
    /\ error = ""
    /\ exitCode = -1
    /\ merged2 = EmptyObject

(***************************************************************************)
(* SpecPaths: the two path helpers applied to bounded inputs               *)
(***************************************************************************)
InitPaths ==
    /\ pc = "input"
    /\ prefix \in Str(PrefixChars, MaxPrefixLen)
    /\ routePath \in Str(PathChars, MaxPathLen)
    /\ out = <<>>
    /\ out2 = <<>>
    /\ IdleResponses
    /\ IdleRun
    /\ IdleDocs
    /\ IdleSchema
    /\ IdleServe
    /\ IdleClean

Normalize ==
    /\ pc = "input"
    /\ out' = normalizePathToOpenApi(routePath)
    /\ pc' = "normalized"
    /\ UNCHANGED <<prefix, routePath, out2, notPathVars>>

NormalizeAgain ==
    /\ pc = "normalized"
    /\ out2' = normalizePathToOpenApi(out)
    /\ pc' = "renormalized"
    /\ UNCHANGED <<prefix, routePath, out, notPathVars>>

Combine ==
    /\ pc = "input"
    /\ out' = combinePathWithPrefix(prefix, routePath)
    /\ pc' = "combined"
    /\ UNCHANGED <<prefix, routePath, out2, notPathVars>>

NextPaths == Normalize \/ NormalizeAgain \/ Combine

SpecPaths == InitPaths /\ [][NextPaths]_vars

(***************************************************************************)
(* Spec: one generation run (generateOpenApi, then the merge step of       *)
(* runGenerate) over bounded route tables, markers and configurations      *)
(***************************************************************************)
Branch(status, output) == [status |-> status, output |-> output]
MethodProp(name, vs) == [name |-> name, variants |-> vs]
RouteProp(path, typeNode) == [name |-> Quoted(path), typeNode |-> typeNode]

Ok200 == <<"2", "0", "0">>
NotFound404 == <<"4", "0", "4">>
StatusCodeText == <<"S", "t", "a", "t", "u", "s", "C", "o", "d", "e">>

PathRoot == <<"/">>
PathA == <<"/", "a">>
PathTwoParams == <<"/", ":", "a", "-", ":", "b">>

\* { "/a": { $get: 200 | 200 | 404, $post: StatusCode }, "/": { $get: 200 } }
LitUsers ==
    TypeLiteral(1,
        << RouteProp(PathA, TypeLiteral(0,
               << MethodProp("$get", << Branch(Ok200, StringType),
                                        Branch(Ok200, NumberType),
                                        Branch(NotFound404, OtherType) >>),
                  MethodProp("$post", << Branch(StatusCodeText, StringType) >>) >>)),
           RouteProp(PathRoot, TypeLiteral(0,
               << MethodProp("$get", << Branch(Ok200, StringType) >>) >>)) >>)

\* { "/a": { $get: 200 }, "/:a-:b": { $get: 200 } }
LitDocs ==
    TypeLiteral(2,
        << RouteProp(PathA, TypeLiteral(0,
               << MethodProp("$get", << Branch(Ok200, NumberType) >>) >>)),
           RouteProp(PathTwoParams, TypeLiteral(0,
               << MethodProp("$get", << Branch(Ok200, StringType) >>) >>)) >>)

\* { "/a": { $get: 200 }, "/e": {}, "/r": SomeType }
LitBare ==
    TypeLiteral(3,
        << RouteProp(PathA, TypeLiteral(0,
               << MethodProp("$get", << Branch(Ok200, StringType) >>) >>)),
           RouteProp(<<"/", "e">>, TypeLiteral(0, <<>>)),
           RouteProp(<<"/", "r">>, TypeReference) >>)

BlankSchema == ImportType("BlankSchema", <<>>)

MergeSchemaPath(schema, path) ==
    ImportType("MergeSchemaPath", <<schema, LiteralType(Quoted(path))>>)

MountPaths == { <<"/", "d">>, <<"/">> }

\* what a sub-application's schema can be
Schemas ==
    { LitUsers, LitDocs,
      IntersectionType(<<LitUsers, LitDocs>>),
      IntersectionType(<<LitDocs, TypeReference>>) }

\* merge-at-path wrappers nested d deep
RECURSIVE Wrappers(_)
Wrappers(d) ==
    IF d = 0 THEN { MergeSchemaPath(sc, mp) : sc \in Schemas, mp \in MountPaths }
    ELSE { MergeSchemaPath(UnionType(<<BlankSchema, w>>), mp) :
               w \in Wrappers(d - 1), mp \in MountPaths }

RoutesNodes ==
    { LitUsers, IntersectionType(<<LitUsers, LitDocs>>) }
    \cup { UnionType(<<BlankSchema, w>>) :
               w \in UNION { Wrappers(d) : d \in 0..MaxDepth } }
    \cup { UnionType(<<BlankSchema,
                       MergeSchemaPath(IntersectionType(<<LitDocs>>), <<"/", "d">>),
                       MergeSchemaPath(IntersectionType(<<LitUsers>>), <<"/", "u">>)>>),
           UnionType(<<LitDocs, IntersectionType(<<LitUsers, TypeReference>>),
                       TypeReference>>) }

RouteDoc(method, route, docConfig) ==
    [method |-> method, route |-> route, docConfig |-> docConfig]

\* the markers of the route source file
Documentations ==
    { <<>>,
      << RouteDoc("get", PathA, DocConfig(<<"List">>, <<>>, <<"X">>, FALSE)) >>,
      << RouteDoc("get", PathA, DocConfig(<<>>, <<"All of them">>, <<>>, TRUE)) >> }

CustomApi(api, method, summary, description, tag) ==
    [defined |-> TRUE, api |-> api, method |-> method, summary |-> summary,
     description |-> description, tag |-> tag]

\* the manual overrides a configuration can list
CustomApis ==
    { CustomApi(<<"/", "a", "/">>, "GET", <<"Manual">>, <<>>, <<"Y">>),
      CustomApi(PathA, "get", <<>>, <<"By hand">>, <<>>),
      CustomApi(<<"/">>, "get", <<>>, <<>>, <<"Z">>),
      CustomApi(<<"/", "z">>, "post", <<"Nowhere">>, <<>>, <<"W">>) }

GroupNames == {"API", "Users"}

ApiPrefixes == { <<>>, <<"/", "a", "u", "t", "h">> }

\* the call expressions a route source file can hold
PathParam == <<"/", ":", "a">>

Calls ==
    { CallExpression(TRUE, "get", <<StringLiteral(Quoted(PathA)), ArrowFunction>>),
      CallExpression(TRUE, "post", <<StringLiteral(<<"'">> \o PathA \o <<"'">>), ArrowFunction>>),
      CallExpression(TRUE, "GET", <<StringLiteral(Quoted(PathParam)), ArrowFunction>>),
      CallExpression(TRUE, "get", <<StringLiteral(Quoted(PathRoot)), ArrowFunction>>),
      CallExpression(TRUE, "get", <<StringLiteral(Quoted(PathA))>>),
      CallExpression(TRUE, "use", <<StringLiteral(Quoted(PathA)), ArrowFunction>>),
      CallExpression(FALSE, "get", <<StringLiteral(Quoted(PathA)), ArrowFunction>>),
      CallExpression(TRUE, "get", <<TemplateLiteral(PathA), ArrowFunction>>) }

\* HonoBase<Env, Routes, BasePath>, written as a reference or as import(...)
HonoBaseTypes == { TopTypeNode("TypeReference", 3), TopTypeNode("ImportType", 3) }

\* what else the AppType alias can be
TopTypeNodes ==
    HonoBaseTypes
    \cup { TopTypeNode("TypeReference", 1), TopTypeNode("TypeLiteral", 0),
           TopTypeNode("NoAlias", 0) }

ConfigFiles == {"ok", "missing", "unloadable"}

SourceReads == [types : BOOLEAN, docs : {"ok", "addFails", "callFails"}, routes : BOOLEAN]

StaleFiles == [snapshot |-> "stale", openapi |-> "stale", output |-> "stale"]

\* a run over a typed route table whose every read succeeds
InitTyped ==
    /\ config \in [name : GroupNames,
                   api : Str(CustomApis, MaxApi),
                   apiPrefix : ApiPrefixes,
                   excludePaths : {<<>>}]
    /\ routesNode \in RoutesNodes
    /\ documentation \in Documentations
    /\ configFile = "ok"
    /\ topTypeNode = TopTypeNode("TypeReference", 3)
    /\ sourceCalls = <<>>
    /\ sourceReads = AllReadsOk
    /\ files = NoFiles

\* a run over an application whose routes node is the 'no routes'
\* placeholder
InitFallback ==
    /\ config \in [name : GroupNames,
                   api : { <<>>, <<CustomApi(PathA, "get", <<>>, <<"By hand">>, <<>>)>> },
                   apiPrefix : ApiPrefixes,
                   excludePaths : {<<>>}]
    /\ routesNode = BlankSchema
    /\ documentation \in { <<>>, << RouteDoc("get", PathA,
                                        DocConfig(<<"List">>, <<>>, <<"X">>, FALSE)) >> }
    /\ configFile = "ok"
    /\ topTypeNode = TopTypeNode("ImportType", 3)
    /\ sourceCalls \in Str(Calls, MaxCalls)
    /\ sourceReads \in { r \in SourceReads : r.types /\ r.docs = "ok" }
    /\ files = NoFiles

\* a run in which the configuration file, the AppType alias, the routes
\* node or a read of the route source file can be out of order, over files
\* an earlier run may have left
InitAbnormal ==
    /\ configFile \in ConfigFiles
    /\ config \in IF configFile = "ok"
                  THEN [name : {"Users"},
                        api : { <<CustomApi(PathA, "get", <<>>, <<"By hand">>, <<>>)>> },
                        apiPrefix : {<<>>},
                        excludePaths : {<<>>}]
                  ELSE {NoConfig}
    /\ topTypeNode \in TopTypeNodes
    /\ routesNode \in IF topTypeNode.typeArgs >= 2
                      THEN {LitUsers, BlankSchema, TypeReference}
                      ELSE {NoNode}
    /\ documentation \in Documentations
    /\ sourceCalls \in { <<>>, <<CallExpression(TRUE, "get",
                                    <<StringLiteral(Quoted(PathA)), ArrowFunction>>)>> }
    /\ sourceReads \in SourceReads
    /\ files \in {NoFiles, StaleFiles}

\* an entry of excludePaths: a string, or a regular expression /source/
\* or /^source/ over literal characters
ExcludeString(text) == [kind |-> "string", text |-> text]
ExcludeRegExp(anchored, source) ==
    [kind |-> "RegExp", anchored |-> anchored, source |-> source]

ExcludePaths ==
    { ExcludeString(PathA), ExcludeString(<<"a">>),
      ExcludeRegExp(TRUE, PathA), ExcludeRegExp(FALSE, <<":">>) }

\* a run over a typed route table with excludePaths configured
InitExcluding ==
    /\ config \in [name : {"Users"},
                   api : {<<>>},
                   apiPrefix : {<<>>},
                   excludePaths : Str(ExcludePaths, MaxExcludes) \ {<<>>}]
    /\ routesNode \in { LitUsers, IntersectionType(<<LitUsers, LitDocs>>),
                        UnionType(<<BlankSchema,
                                    MergeSchemaPath(LitUsers, <<"/", "d">>)>>),
                        UnionType(<<BlankSchema,
                                    MergeSchemaPath(IntersectionType(<<LitDocs>>),
                                                    <<"/", "d">>)>>) }
    /\ documentation = <<>>
    /\ configFile = "ok"
    /\ topTypeNode = TopTypeNode("TypeReference", 3)
    /\ sourceCalls = <<>>
    /\ sourceReads = AllReadsOk
    /\ files = NoFiles

\* markers written on routes with path parameters
ParamDocumentations ==
    { << RouteDoc("get", PathTwoParams, DocConfig(<<"Pair">>, <<>>, <<"X">>, FALSE)) >>,
      << RouteDoc("get", PathParam, DocConfig(<<"One">>, <<"By id">>, <<>>, TRUE)) >> }

\* a run, typed or over the source text, whose source file holds a marker
\* on a route with path parameters
InitParamDocs ==
    /\ config = [name |-> "Users", api |-> <<>>, apiPrefix |-> <<>>,
                 excludePaths |-> <<>>]
    /\ \/ /\ routesNode \in { IntersectionType(<<LitUsers, LitDocs>>),
                               UnionType(<<BlankSchema,
                                           MergeSchemaPath(IntersectionType(<<LitDocs>>),
                                                           <<"/", "d">>)>>) }
          /\ topTypeNode = TopTypeNode("TypeReference", 3)
          /\ sourceCalls = <<>>
       \/ /\ routesNode = BlankSchema
          /\ topTypeNode = TopTypeNode("ImportType", 3)
          /\ sourceCalls \in Str(Calls, MaxCalls)
    /\ documentation \in ParamDocumentations
    /\ configFile = "ok"
    /\ sourceReads = AllReadsOk
    /\ files = NoFiles

\* a run over a route table with a route without verbs and a route whose
\* type is not a type literal
InitBare ==
    /\ config \in [name : GroupNames,
                   api : { <<>>, <<CustomApi(<<"/", "e">>, "get", <<>>, <<"By hand">>, <<>>)>> },
                   apiPrefix : {<<>>},
                   excludePaths : {<<>>}]
    /\ routesNode \in { LitBare, IntersectionType(<<LitUsers, LitBare>>),
                        UnionType(<<BlankSchema,
                                    MergeSchemaPath(IntersectionType(<<LitBare>>),
                                                    <<"/", "d">>)>>) }
    /\ documentation \in Documentations
    /\ configFile = "ok"
    /\ topTypeNode = TopTypeNode("TypeReference", 3)
    /\ sourceCalls = <<>>
    /\ sourceReads = AllReadsOk
    /\ files = NoFiles

Init ==
    /\ pc = "start"
    /\ \/ InitTyped \/ InitFallback \/ InitAbnormal
       \/ InitExcluding \/ InitParamDocs \/ InitBare
    /\ literalsWithPrefixes = <<>>
    /\ json = EmptyObject
    /\ merged = EmptyObject
    /\ merged2 = EmptyObject
    /\ error = ""
    /\ exitCode = -1
    /\ IdlePaths
    /\ IdleResponses
    /\ IdleDocs
    /\ IdleSchema
    /\ IdleServe
    /\ IdleClean

\* a rejected step: the CLI handler catches the error, prints it and exits
\* with code 1
Abort(e) ==
    /\ pc' = "exited"
    /\ error' = e
    /\ exitCode' = 1
    /\ UNCHANGED <<notRunVars, config, routesNode, documentation,
                   literalsWithPrefixes, json, merged, configFile, topTypeNode,
                   sourceCalls, sourceReads, files, merged2>>

loadConfig_NoExistsCheck(state, exported) ==
    IF state = "unloadable"
    THEN [config |-> NoConfig, error |-> "Failed to load config"]
    ELSE [config |-> exported, error |-> ""]

\* the configuration loadConfig resolves to, or the error it rejects with
loadConfig(state, exported) ==
    IF state = "missing"
    THEN [config |-> NoConfig, error |-> "Config file not found"]
    ELSE IF state = "unloadable"
    THEN [config |-> NoConfig, error |-> "Failed to load config"]
    ELSE [config |-> exported, error |-> ""]

\* runGenerate up to its first generation step
LoadConfig ==
    /\ pc = "start"
    /\ LET loaded == loadConfig(configFile, config)
       IN  IF loaded.error # "" THEN Abort(loaded.error)
           ELSE /\ pc' = "loaded"
                /\ UNCHANGED <<notRunVars, runVars>>

\* generateTypes: the route source file is added to the project and the
\* type snapshot is written
GenerateTypes ==
    /\ pc = "loaded"
    /\ IF ~sourceReads.types THEN Abort(FileNotFoundError)
       ELSE /\ files' = [files EXCEPT !.snapshot = "fresh"]
            /\ pc' = "snapshot"
            /\ UNCHANGED <<notRunVars, config, routesNode, documentation,
                           literalsWithPrefixes, json, merged, configFile,
                           topTypeNode, sourceCalls, sourceReads, error, exitCode,
                           merged2>>

\* generateOpenApi: the markers, the Walker, the Synthesizer, and the
\* intermediate document written to disk
Generate ==
    /\ pc = "snapshot"
    /\ LET r == generateOpenApi(topTypeNode, routesNode, sourceCalls,
                                documentation, sourceReads, ApiGroupOf(config))
       IN  IF r.error # "" THEN Abort(r.error)
           ELSE /\ literalsWithPrefixes' = r.literalsWithPrefixes
                /\ json' = r.paths
                /\ files' = [files EXCEPT !.openapi = "fresh"]
                /\ pc' = "generated"
                /\ UNCHANGED <<notRunVars, config, routesNode,
                               documentation, merged, configFile, topTypeNode,
                               sourceCalls, sourceReads, error, exitCode, merged2>>

\* the environment: the intermediate file is removed before runGenerate
\* looks for it
RemoveOpenApiFile ==
    /\ pc = "generated"
    /\ files.openapi = "fresh"
    /\ files' = [files EXCEPT !.openapi = "absent"]
    /\ UNCHANGED <<pc, notRunVars, config, routesNode, documentation,
                   literalsWithPrefixes, json, merged, configFile, topTypeNode,
                   sourceCalls, sourceReads, error, exitCode, merged2>>

\* runGenerate after generateOpenApi: the intermediate document is read
\* back, merged into the final document, and the final document is written
Merge ==
    /\ pc = "generated"
    /\ IF files.openapi = "absent" THEN Abort(MissingFileError)
       ELSE /\ merged' = MergePaths(json, config)
            /\ files' = [files EXCEPT !.output = "fresh"]
            /\ exitCode' = 0
            /\ pc' = "merged"
            /\ UNCHANGED <<notRunVars, config, routesNode, documentation,
                           literalsWithPrefixes, json, configFile, topTypeNode,
                           sourceCalls, sourceReads, error, merged2>>

\* the merge step run once more on the same intermediate document and
\* configuration
MergeAgain ==
    /\ pc = "merged"
    /\ files.openapi = "fresh"
    /\ merged2' = MergePaths(json, config)
    /\ pc' = "remerged"
    /\ UNCHANGED <<notRunVars, config, routesNode, documentation,
                   literalsWithPrefixes, json, merged, configFile, topTypeNode,
                   sourceCalls, sourceReads, files, error, exitCode>>

Next ==
    \/ LoadConfig
    \/ GenerateTypes
    \/ Generate
    \/ RemoveOpenApiFile
    \/ Merge
    \/ MergeAgain

Spec == Init /\ [][Next]_vars

(***************************************************************************)
(* Notions the properties of a run are stated with                         *)
(***************************************************************************)
\* every (raw path, emitted path, verb) the Synthesizer emits an operation
\* for, read off the Walker's entries
EmittedRoutes ==
    UNION { UNION { { [raw |-> StripQuotes(literalsWithPrefixes[e].literal.members[m].name),
                       route |-> normalizePathToOpenApi(combinePathWithPrefix(
                                     literalsWithPrefixes[e].prefix,
                                     StripQuotes(literalsWithPrefixes[e].literal.members[m].name))),
                       http |-> toLowerCase(Slice1(
                                    literalsWithPrefixes[e].literal.members[m].typeNode.members[v].name))] :
                      v \in IF literalsWithPrefixes[e].literal.members[m].typeNode.kind
                                = "TypeLiteral"
                            THEN 1..Len(literalsWithPrefixes[e].literal.members[m].typeNode.members)
                            ELSE {} } :
                    m \in 1..Len(literalsWithPrefixes[e].literal.members) } :
            e \in 1..Len(literalsWithPrefixes) }

\* the markers written on verb r.http of raw route r.raw
MarkersOf(r) ==
    { i \in 1..Len(documentation) :
          documentation[i].method = r.http /\ documentation[i].route = r.raw }

\* the tags the inline marker of r supplies (none when it has no marker)
InlineTags(r) ==
    IF MarkersOf(r) = {} THEN <<>>
    ELSE documentation[CHOOSE i \in MarkersOf(r) : \A j \in MarkersOf(r) : j <= i].docConfig.tags

\* the override path with its trailing slashes removed, '/' when nothing is left
TrimmedApi(api) ==
    LET n == CHOOSE k \in 0..Len(api) :
                 /\ k = 0 \/ api[k] # "/"
                 /\ \A j \in (k + 1)..Len(api) : api[j] = "/"
    IN  IF n = 0 THEN <<"/">> ELSE SubSeq(api, 1, n)

\* the overrides of the configuration whose key is the key of operation r
OverridesOf(r) ==
    { i \in 1..Len(config.api) :
          /\ toLowerCase(config.api[i].method) = r.http
          /\ TrimmedApi(config.api[i].api) = r.route }

LastOf(S) == CHOOSE i \in S : \A j \in S : j <= i

IsPrefixOf(s, t) == Len(s) <= Len(t) /\ SubSeq(t, 1, Len(s)) = s

JsonOp(r) == json.val[r.route].val[r.http]
FinalOp(r) == merged.val[r.route].val[r.http]

\* C1: an emitted route with no inline marker and no matching manual
\* override has, in the final document, tags equal to [groupName] and the
\* summary "Auto-generated {VERB} {PATH}".
C1_UndocumentedDefaults ==
    pc = "merged" =>
        \A r \in EmittedRoutes :
            (MarkersOf(r) = {} /\ OverridesOf(r) = {}) =>
                /\ FinalOp(r).tags = <<config.name>>
                /\ FinalOp(r).summary
                       = <<"Auto-generated ", toUpperCase(r.http), " ">> \o r.route

\* the entries of every type literal reachable from a node, each at the
\* concatenation of the path literals of the wrappers around it
RECURSIVE ReachableLiterals(_, _)
RECURSIVE ReachableInAll(_, _, _)
ReachableLiterals(node, pre) ==
    IF node.kind = "TypeLiteral" THEN <<[literal |-> node, prefix |-> pre]>>
    ELSE IF node.kind = "IntersectionType" THEN LiteralMembers(node.types, pre)
    ELSE IF node.kind = "UnionType" THEN ReachableInAll(node.types, 1, pre)
    ELSE IF node.kind = "ImportType" /\ node.qualifier = "MergeSchemaPath"
    THEN ReachableLiterals(node.typeArgs[1],
                           pre \o StripQuotes(node.typeArgs[2].text))
    ELSE <<>>
ReachableInAll(types, i, pre) ==
    IF i > Len(types) THEN <<>>
    ELSE ReachableLiterals(types[i], pre) \o ReachableInAll(types, i + 1, pre)

\* C2: for a routes node that is a union of merge-at-path wrappers the
\* Walker returns exactly one entry per type literal reachable inside the
\* wrappers, each at the concatenation (outermost first) of the path
\* literals of the wrappers enclosing it; a 'no routes' placeholder
\* contributes nothing.
C2_WalkerRecoversEveryLiteral ==
    (pc \in {"generated", "merged"} /\ routesNode.kind = "UnionType") =>
        literalsWithPrefixes = ReachableLiterals(routesNode, <<>>)

\* C3: no path key emitted by processTypedRoutes holds a ':param' token.
C3_NoColonParamInPathKeys ==
    pc \in {"generated", "merged"} =>
        \A i \in 1..Len(json.keys) : ~HasParamToken(json.keys[i])

\* C8: when the inline marker supplies tags X and the matching manual
\* override supplies a non-empty tag list Y, the final tags are exactly Y;
\* when only the inline marker supplies tags, the inline tags are kept,
\* ahead of the group name.
C8_TagPrecedence ==
    pc = "merged" =>
        \A r \in EmittedRoutes :
            InlineTags(r) # <<>> =>
                IF OverridesOf(r) # {} /\ config.api[LastOf(OverridesOf(r))].tag # <<>>
                THEN FinalOp(r).tags = config.api[LastOf(OverridesOf(r))].tag
                ELSE IsPrefixOf(InlineTags(r), FinalOp(r).tags)

\* what applying override c to the intermediate operation j gives
OverriddenBy(c, j, f) ==
    /\ f.summary = (IF c.summary # <<>> THEN c.summary ELSE j.summary)
    /\ f.description = (IF c.description # <<>> THEN c.description ELSE j.description)
    /\ f.tags = (IF c.tag # <<>> THEN c.tag ELSE <<config.name>>)
    /\ f.responses = j.responses
    /\ f.deprecated = j.deprecated

\* what the merge gives for an operation no override is applied to
NotOverridden(j, f) ==
    /\ f.summary = j.summary
    /\ f.description = j.description
    /\ f.tags = (IF config.name \in Range(j.tags) THEN j.tags
                 ELSE j.tags \o <<config.name>>)
    /\ f.responses = j.responses
    /\ f.deprecated = j.deprecated

\* the final document has the paths and verbs of the intermediate one
SamePathsAndVerbs ==
    /\ merged.keys = json.keys
    /\ \A k \in Range(json.keys) : merged.val[k].keys = json.val[k].keys

\* the overrides whose key is the key of some emitted operation
MatchingApis ==
    SelectSeq(config.api,
        LAMBDA c : \E r \in EmittedRoutes :
            /\ toLowerCase(c.method) = r.http
            /\ TrimmedApi(c.api) = r.route)

\* C9 as stated: every override entry whose key (lower-cased method, path
\* without trailing slashes, '/' when empty) equals the key of an operation
\* is applied to it, an operation no entry matches is left alone, and
\* overrides add no path or operation.
C9_EveryMatchingOverrideApplied ==
    pc = "merged" =>
        /\ SamePathsAndVerbs
        /\ \A r \in EmittedRoutes :
               /\ \A i \in OverridesOf(r) :
                      OverriddenBy(config.api[i], JsonOp(r), FinalOp(r))
               /\ OverridesOf(r) = {} => NotOverridden(JsonOp(r), FinalOp(r))

\* C9 amended: of the override entries whose key equals the key of an
\* operation, the last one of the list is the one applied to it; an
\* operation no entry matches is left alone; an override matching no
\* operation changes nothing and adds no path or operation.
C9_LastMatchingOverrideApplied ==
    pc = "merged" =>
        /\ SamePathsAndVerbs
        /\ \A r \in EmittedRoutes :
               /\ OverridesOf(r) # {} =>
                      OverriddenBy(config.api[LastOf(OverridesOf(r))],
                                   JsonOp(r), FinalOp(r))
               /\ OverridesOf(r) = {} => NotOverridden(JsonOp(r), FinalOp(r))
        /\ merged = MergePaths(json, [config EXCEPT !.api = MatchingApis])

\* C9 witness: an override written with a trailing slash and an upper-case
\* method is applied, next to an override that matches no operation.
C9_Witness ==
    /\ pc = "merged"
    /\ Len(config.api) = 2
    /\ config.api[1].api = <<"/", "z">>
    /\ config.api[2].api = <<"/", "a", "/">>
    /\ config.api[2].method = "GET"
    /\ Has(merged, PathA)
    /\ Has(merged.val[PathA], "get")
    /\ merged.val[PathA].val["get"].tags = <<"Y">>
    /\ merged.val[PathA].val["get"].summary = <<"Manual">>
    /\ ~Has(merged, <<"/", "z">>)

\* C10: every path of the intermediate document appears in the final
\* document under combine(apiPrefix, path), apiPrefix being the mount prefix
\* configured for the group.
C10_GroupPrefixApplied ==
    pc = "merged" =>
        Range(merged.keys)
            = { combinePathWithPrefix(config.apiPrefix, k) : k \in Range(json.keys) }

\* C4: normalizePathToOpenApi is idempotent on every path string:
\* normalizing an already normalized path changes nothing.
C4_NormalizeIdempotent ==
    pc = "renormalized" => out2 = out

\* C5: when neither the prefix nor the route path holds '//', the combined
\* path holds no '//' either.
C5_NoDoubleSlash ==
    (pc = "combined" /\ ~HasDoubleSlash(prefix) /\ ~HasDoubleSlash(routePath))
        => ~HasDoubleSlash(out)

\* C6: combinePathWithPrefix returns the route path when the prefix is ''
\* or '/', and returns the prefix when the route path is '/' and the prefix
\* is not empty.
C6_CombineIdentities ==
    pc = "combined" =>
        /\ (prefix = <<>> \/ prefix = <<"/">>) => out = routePath
        /\ (routePath = <<"/">> /\ prefix # <<>>) => out = prefix

\* C6 witness: the root prefix combined with a route path longer than '/'.
C6_Witness ==
    /\ pc = "combined"
    /\ prefix = <<"/">>
    /\ Len(routePath) > 1
    /\ out = routePath

(***************************************************************************)
(* Properties of the source-text fallback                                  *)
(***************************************************************************)
\* the routes node is the 'no routes' placeholder at the top level
IsFallbackRun ==
    /\ topTypeNode \in HonoBaseTypes
    /\ routesNode.kind = "ImportType"

\* generateOpenApi has been called in this run
GenerateCalled == files.snapshot = "fresh" /\ pc # "snapshot"

\* the call expressions of the form .verb("literalPath", handler...) with a
\* recognised HTTP verb
RouteCalls ==
    { i \in 1..Len(sourceCalls) :
          /\ sourceCalls[i].access
          /\ \E v \in httpMethods : sourceCalls[i].name \in {v, toUpperCase(v)}
          /\ Len(sourceCalls[i].args) >= 2
          /\ sourceCalls[i].args[1].kind = "StringLiteral" }

\* the literal path of a call, without its quotes, and its verb
CallPath(i) ==
    SubSeq(sourceCalls[i].args[1].text, 2, Len(sourceCalls[i].args[1].text) - 1)
CallVerb(i) == toLowerCase(sourceCalls[i].name)

\* the path with every ':name' segment start rewritten to '{name...}', as
\* the path key is expected to read
ExpectedKey(i) == normalizePathToOpenApi(CallPath(i))

\* C11: when the top-level routes node is the 'no routes' placeholder,
\* generation does not fail, and every call .verb("literalPath", handler...)
\* with a recognised verb has, in the intermediate document, an operation
\* at (path, verb) with no parameters, no requestBody and the single
\* response key 'default'.
C11_FallbackRecoversCalls ==
    (IsFallbackRun /\ sourceReads.routes /\ GenerateCalled) =>
        /\ error \in {"", MissingFileError}
        /\ \A i \in RouteCalls :
               /\ Has(json, ExpectedKey(i))
               /\ Has(json.val[ExpectedKey(i)], CallVerb(i))
               /\ LET op == json.val[ExpectedKey(i)].val[CallVerb(i)]
                  IN  /\ op.parameters = <<>>
                      /\ op.requestBody = <<>>
                      /\ DOMAIN op.responses = {DefaultKey}

\* C12: on the fallback path with no mount prefix configured, every
\* recovered route is in the final document under normalize(literalPath),
\* and, when it has no marker and no override, with the group name as its
\* only tag.
C12_FallbackPathsAndTags ==
    (IsFallbackRun /\ config.apiPrefix = <<>> /\ pc = "merged") =>
        \A i \in RouteCalls :
            /\ Has(merged, ExpectedKey(i))
            /\ Has(merged.val[ExpectedKey(i)], CallVerb(i))
            /\ ( /\ \A d \in Range(documentation) :
                        ~(d.method = CallVerb(i) /\ d.route = CallPath(i))
                 /\ \A c \in Range(config.api) :
                        ~(toLowerCase(c.method) = CallVerb(i)
                          /\ TrimmedApi(c.api) = ExpectedKey(i)) )
                => merged.val[ExpectedKey(i)].val[CallVerb(i)].tags = <<config.name>>

RouteExtractionFails ==
    \/ topTypeNode \notin HonoBaseTypes
    \/ routesNode.kind \notin {"IntersectionType", "UnionType", "TypeLiteral"}

\* the operation carries auto-generated documentation only
AutoDocumented(op) ==
    /\ op.summary # <<>>
    /\ op.summary[1] = "Auto-generated "
    /\ op.description = <<>>
    /\ op.tags \in {<<"API">>, <<config.name>>}
    /\ ~op.deprecated

\* C15: a failure of the extraction of the doc() markers (the file cannot
\* be added, a call expression cannot be processed) never rejects
\* generateOpenApi: it is rejected only when the routes cannot be extracted,
\* and otherwise emits every route, each with auto-generated documentation
\* when the whole extraction failed.
C15_DocFailureIsCaught ==
    (GenerateCalled /\ sourceReads.docs # "ok") =>
        IF error \notin {"", MissingFileError}
        THEN RouteExtractionFails
        ELSE \A r \in EmittedRoutes :
                 /\ Has(json, r.route)
                 /\ Has(json.val[r.route], r.http)
                 /\ sourceReads.docs = "addFails" => AutoDocumented(JsonOp(r))

\* C15 witness: the file holds a marker for get /a, it cannot be added, and
\* get /a is generated with its auto-generated summary.
C15_Witness ==
    /\ pc = "generated"
    /\ sourceReads.docs = "addFails"
    /\ documentation # <<>>
    /\ documentation[1].route = PathA
    /\ Has(json, PathA)
    /\ json.val[PathA].val["get"].summary = AutoSummary("get", PathA)

\* C16: when the intermediate file is missing as the merge step starts,
\* the merge does not fail: the group contributes no paths and the final
\* document is written.
C16_MissingIntermediateTolerated ==
    [][(pc = "generated" /\ files.openapi = "absent")
          => (pc' = "merged" /\ files'.output = "fresh" /\ merged' = EmptyObject)]_vars

\* C17: when the configuration file is missing or cannot be loaded, the
\* run fails before any generation step: nothing is extracted and no
\* snapshot, intermediate or final file is written.
C17_ConfigFailureWritesNothing ==
    configFile # "ok" =>
        /\ pc \in {"start", "exited"}
        /\ pc = "exited" => (error # "" /\ exitCode = 1)
        /\ files \in {NoFiles, StaleFiles}
        /\ literalsWithPrefixes = <<>>
        /\ json = EmptyObject
        /\ merged = EmptyObject

\* C17 witness: a run over a missing configuration file has exited and the
\* files of an earlier run are as they were.
C17_Witness ==
    /\ pc = "exited"
    /\ configFile = "missing"
    /\ files = StaleFiles
    /\ exitCode = 1

\* the AppType alias or its routes node has a shape route extraction
\* rejects
FatalShape ==
    /\ topTypeNode.kind # "NoAlias"
    /\ \/ topTypeNode.kind \notin {"TypeReference", "ImportType"}
       \/ topTypeNode.typeArgs < 2
       \/ routesNode.kind \notin {"IntersectionType", "UnionType", "TypeLiteral",
                                  "ImportType"}

\* C18: when route extraction fails with a fatal error, the run aborts:
\* no intermediate file and no final document is written (existing ones
\* are left as they were), the error is printed and the exit code is 1.
C18_FatalExtractionAborts ==
    (GenerateCalled /\ FatalShape) =>
        /\ pc = "exited"
        /\ exitCode = 1
        /\ error \in {TopKindError, TypeArgsError, RoutesKindError}
        /\ files.openapi # "fresh"
        /\ files.output # "fresh"
        /\ json = EmptyObject
        /\ merged = EmptyObject

\* C18 witness: a routes node of an unsupported kind aborts the run after
\* the snapshot was written, next to the stale files of an earlier run.
C18_Witness ==
    /\ pc = "exited"
    /\ topTypeNode = TopTypeNode("TypeReference", 3)
    /\ routesNode = TypeReference
    /\ error = RoutesKindError
    /\ exitCode = 1
    /\ files = [snapshot |-> "fresh", openapi |-> "stale", output |-> "stale"]

\* path.endsWith(exclude)
endsWithText(path, t) ==
    Len(t) <= Len(path) /\ SubSeq(path, Len(path) - Len(t) + 1, Len(path)) = t

\* exclude.test(path) for /source/ and /^source/
test(exclude, path) ==
    \E i \in 1..(Len(path) - Len(exclude.source) + 1) :
        /\ exclude.anchored => i = 1
        /\ SubSeq(path, i, i + Len(exclude.source) - 1) = exclude.source

\* the exclusion test excludePaths stands for
isPathExcluded(path, excludePaths) ==
    \E i \in 1..Len(excludePaths) :
        IF excludePaths[i].kind = "string"
        THEN path = excludePaths[i].text \/ endsWithText(path, excludePaths[i].text)
        ELSE test(excludePaths[i], path)

\* C22: a route whose raw path equals an excludePaths string, ends with
\* one or matches an excludePaths regular expression has no path key and
\* no operation in the generated document (unless a route that is not
\* excluded is emitted under the same key); every other route is emitted
\* as without excludePaths.
C22_ExcludedRoutesNotEmitted ==
    (pc = "generated" /\ ~IsFallbackRun) =>
        \A r \in EmittedRoutes :
            IF isPathExcluded(r.raw, config.excludePaths)
            THEN \/ r.route \notin Range(json.keys)
                 \/ \E o \in EmittedRoutes :
                        /\ o.route = r.route
                        /\ ~isPathExcluded(o.raw, config.excludePaths)
            ELSE /\ r.route \in Range(json.keys)
                 /\ r.http \in Range(json.val[r.route].keys)

\* the members of the routes union that are merge-at-path wrappers around
\* a single type literal
LiteralWrappers ==
    { i \in 1..Len(routesNode.types) :
          /\ routesNode.types[i].kind = "ImportType"
          /\ routesNode.types[i].qualifier = "MergeSchemaPath"
          /\ Len(routesNode.types[i].typeArgs) >= 2
          /\ routesNode.types[i].typeArgs[1].kind = "TypeLiteral" }

\* C23: a merge-at-path wrapper whose Schema argument is a single type
\* literal yields one entry for that literal at the prefix extended by the
\* wrapper's path literal.
C23_LiteralSchemaWalked ==
    (pc = "generated" /\ routesNode.kind = "UnionType") =>
        \A i \in LiteralWrappers :
            \E e \in 1..Len(literalsWithPrefixes) :
                /\ literalsWithPrefixes[e].literal = routesNode.types[i].typeArgs[1]
                /\ literalsWithPrefixes[e].prefix
                       = StripQuotes(routesNode.types[i].typeArgs[2].text)

\* the fields a marker sets are the fields of the operation
MarkerApplied(op, dc) ==
    /\ dc.summary # <<>> => op.summary = dc.summary
    /\ dc.description # <<>> => op.description = dc.description
    /\ dc.tags # <<>> => op.tags = dc.tags
    /\ dc.deprecated => op.deprecated

\* the markers written on the route and verb of call i
MarkersOfCall(i) ==
    { d \in 1..Len(documentation) :
          /\ documentation[d].method = CallVerb(i)
          /\ documentation[d].route = CallPath(i) }

\* the path keys under which the operation of call i can stand
KeysOfCall(i) ==
    { k \in Range(json.keys) :
          k \in {ExpectedKey(i), undefined \o ExpectedKey(i)} }

\* C24: on the typed path and on the source-text fallback alike, a doc()
\* marker written on route R with verb V (looked up under verb:R, R as
\* written in the source, ':param' syntax, no prefix) is applied to the
\* operation emitted for (V, R), also when R holds path parameters.
C24_MarkerAppliedByRawPath ==
    (pc = "generated" /\ sourceReads.docs = "ok") =>
        IF IsFallbackRun
        THEN \A i \in RouteCalls : \A k \in KeysOfCall(i) :
                 (MarkersOfCall(i) # {} /\ Has(json.val[k], CallVerb(i))) =>
                     MarkerApplied(json.val[k].val[CallVerb(i)],
                                   documentation[LastOf(MarkersOfCall(i))].docConfig)
        ELSE \A r \in EmittedRoutes :
                 MarkersOf(r) # {} =>
                     MarkerApplied(JsonOp(r),
                                   documentation[LastOf(MarkersOf(r))].docConfig)

\* parseAppTypeRoutes threw in this run
ParseThrew ==
    /\ pc = "exited"
    /\ error \in {NoAliasError, TopKindError, TypeArgsError, RoutesKindError,
                  FileNotFoundError}

\* the AppType alias is neither a type reference nor an import type, has
\* fewer than 2 type arguments, or its second type argument is of none of
\* the four recognised kinds
UnrecognisedShape ==
    /\ topTypeNode.kind # "NoAlias"
    /\ \/ topTypeNode.kind \notin {"TypeReference", "ImportType"}
       \/ topTypeNode.typeArgs < 2
       \/ routesNode.kind \notin {"TypeLiteral", "IntersectionType", "UnionType",
                                  "ImportType"}

\* the snapshot declares no AppType alias
MissingAlias == topTypeNode.kind = "NoAlias"

\* the routes node is the import-type placeholder and the route source
\* file cannot be read
UnreadableFallback ==
    /\ ~UnrecognisedShape
    /\ ~MissingAlias
    /\ routesNode.kind = "ImportType"
    /\ ~sourceReads.routes

\* C26 as stated: parseAppTypeRoutes throws, and returns no entries,
\* exactly when the AppType alias is neither a type reference nor an import
\* type, or has fewer than 2 type arguments, or its second type argument is
\* not a type literal, intersection, union or import-type placeholder; for
\* each of the four recognised kinds it returns without throwing, also when
\* no entry is recovered.
C26_ThrowsExactlyOnShape ==
    GenerateCalled =>
        /\ ParseThrew <=> UnrecognisedShape
        /\ ParseThrew => literalsWithPrefixes = <<>>

\* C26: parseAppTypeRoutes throws, and returns no entries, exactly when
\* the AppType alias is neither a type reference nor an import type, or has
\* fewer than 2 type arguments, or its second type argument is not a type
\* literal, intersection, union or import-type placeholder, or the
\* snapshot declares no AppType alias, or that argument is the import-type
\* placeholder and the route source file cannot be read; in every other
\* case it returns without throwing, also when no entry is recovered.
C26_ThrowsOnShapeOrUnreadable ==
    GenerateCalled =>
        /\ ParseThrew <=> (UnrecognisedShape \/ MissingAlias \/ UnreadableFallback)
        /\ ParseThrew => literalsWithPrefixes = <<>>

\* C26 witness: the import-type placeholder over a source file without
\* route calls returns no entry and does not throw
C26_Witness ==
    /\ pc = "generated"
    /\ ~UnrecognisedShape
    /\ ~MissingAlias
    /\ routesNode.kind = "ImportType"
    /\ sourceCalls = <<>>
    /\ literalsWithPrefixes = <<>>
    /\ json.keys = <<>>

\* C28: every path key of the paths map written by generateOpenApi has at
\* least one operation under it; no route member leaves an empty object
\* as the value of a path key.
C28_NoEmptyPathItem ==
    pc = "generated" =>
        \A k \in Range(json.keys) : json.val[k].keys # <<>>

\* the entries of the Walker with a route declaration of the verb and raw
\* path of marker d whose operation carries the summary of d
Carriers(d) ==
    { e \in 1..Len(literalsWithPrefixes) :
          \E r \in EmittedRoutes :
              /\ r.raw = d.route
              /\ r.http = d.method
              /\ r.route = normalizePathToOpenApi(combinePathWithPrefix(
                                literalsWithPrefixes[e].prefix, r.raw))
              /\ \E m \in 1..Len(literalsWithPrefixes[e].literal.members) :
                     StripQuotes(literalsWithPrefixes[e].literal.members[m].name) = r.raw
              /\ JsonOp(r).summary = d.docConfig.summary }

\* C29: an operation is documented only by the marker written on its own
\* route declaration: when two sub-applications declare the same verb on
\* the same raw path and are mounted at different prefixes, the one marker
\* of the source file, written on one of the two declarations, is applied
\* to the operation of at most one of them.
C29_MarkerStaysWithItsRoute ==
    (pc = "generated" /\ sourceReads.docs = "ok" /\ Len(documentation) = 1
        /\ documentation[1].docConfig.summary # <<>>) =>
        \A e1, e2 \in Carriers(documentation[1]) :
            literalsWithPrefixes[e1].prefix # literalsWithPrefixes[e2].prefix =>
                literalsWithPrefixes[e1].literal.id = literalsWithPrefixes[e2].literal.id

\* C30: when a matching manual override supplies no tag list and the
\* inline marker of the operation supplies tags, the final operation keeps
\* the tags of the inline marker; the group name is the only tag solely
\* when neither of the two supplies a tag.
C30_TaglessOverrideKeepsInlineTags ==
    (pc = "merged" /\ sourceReads.docs = "ok") =>
        \A r \in EmittedRoutes :
            (OverridesOf(r) # {} /\ config.api[LastOf(OverridesOf(r))].tag = <<>>) =>
                IF InlineTags(r) # <<>>
                THEN IsPrefixOf(InlineTags(r), FinalOp(r).tags)
                ELSE FinalOp(r).tags = <<config.name>>


(***************************************************************************)
(* SpecResponses: the responses of one verb built from bounded branches    *)
(***************************************************************************)
StatusTexts ==
    { <<"2", "0", "0">>, <<"4", "0", "4">>, <<"2", "x", "x">>,
      <<"n", "u", "m", "b", "e", "r">> }

OutputTypes == {StringType, NumberType}

Branches == [status : StatusTexts, output : OutputTypes]

InitResponses ==
    /\ pc = "variants"
    /\ variants \in UNION { [1..k -> Branches] : k \in 1..MaxBranches }
    /\ responses = <<>>
    /\ IdlePaths
    /\ IdleRun
    /\ IdleDocs
    /\ IdleSchema
    /\ IdleServe
    /\ IdleClean

Respond ==
    /\ pc = "variants"
    /\ responses' = BuildResponses(variants)
    /\ pc' = "responded"
    /\ UNCHANGED <<variants, notRespVars>>

NextResponses == Respond

SpecResponses == InitResponses /\ [][NextResponses]_vars

\* the status key the responses map must use for a branch
ExpectedStatusKey(b) ==
    IF b.status # <<>> /\ { b.status[i] : i \in DOMAIN b.status } \subseteq Digits
    THEN b.status ELSE DefaultKey

\* the branches of vs that key on k, in branch order
BranchesAt(vs, k) == SelectSeq(vs, LAMBDA b : ExpectedStatusKey(b) = k)

\* C7: the responses map of a verb has exactly one entry per distinct status
\* key of its branches (the status text when all digits, 'default'
\* otherwise); an entry grouping several branches holds {oneOf: [...]} with
\* one schema per branch in branch order, an entry grouping one branch holds
\* that branch's schema directly.
C7_ResponseGrouping ==
    pc = "responded" =>
        /\ DOMAIN responses =
               { ExpectedStatusKey(variants[i]) : i \in 1..Len(variants) }
        /\ \A k \in DOMAIN responses :
               LET g == BranchesAt(variants, k)
                   ss == [i \in 1..Len(g) |-> buildSchema(g[i].output)]
               IN  IF Len(g) > 1
                   THEN responses[k].schema = OneOfSchema(ss)
                   ELSE responses[k].schema = ss[1]

\* C7 witness: branches at 200, 200, 404 give '200' with a oneOf of two
\* schemas and '404' with a single schema.
C7_Witness ==
    /\ pc = "responded"
    /\ Len(variants) = 3
    /\ variants[1].status = <<"2", "0", "0">>
    /\ variants[2].status = <<"2", "0", "0">>
    /\ variants[3].status = <<"4", "0", "4">>
    /\ DOMAIN responses = { <<"2", "0", "0">>, <<"4", "0", "4">> }
    /\ Len(responses[<<"2", "0", "0">>].schema.oneOf) = 2
    /\ responses[<<"4", "0", "4">>].schema = buildSchema(variants[3].output)

(***************************************************************************)
(* SpecDocs: the doc() marker of one route call (utils/middleware-docs.ts) *)
(***************************************************************************)
\* nodes of the argument of doc(); Absent stands for a property the object
\* literal does not have
Absent == [kind |-> "Absent"]
Identifier == [kind |-> "Identifier"]
TrueKeyword == [kind |-> "TrueKeyword"]
FalseKeyword == [kind |-> "FalseKeyword"]
ArrayLiteralExpression(elements) ==
    [kind |-> "ArrayLiteralExpression", elements |-> elements]
ObjectLiteralExpression(summary, description, tags, deprecated) ==
    [kind |-> "ObjectLiteralExpression", summary |-> summary,
     description |-> description, tags |-> tags, deprecated |-> deprecated]

\* an argument of the route call that is itself a call: callee(args)
CallArgument(callee, args) ==
    [kind |-> "CallExpression", callee |-> callee, args |-> args]

Whitespace == {" ", "\n", "\t"}

\* s.trim() is the empty string
IsBlank(s) == \A i \in 1..Len(s) : s[i] \in Whitespace

\* the texts of the string literals among the elements of an array literal
TagTexts(elements) ==
    LET lits == SelectSeq(elements, LAMBDA e : e.kind = "StringLiteral")
    IN  [i \in 1..Len(lits) |-> StripAllQuotes(lits[i].text)]

\* the DocConfig read off the argument of doc() and the set of its
\* properties that were assigned
parseDocConfigObject(objectNode) ==
    IF objectNode.kind # "ObjectLiteralExpression"
    THEN [docConfig |-> DocConfig(<<>>, <<>>, <<>>, FALSE), assigned |-> {}]
    ELSE [docConfig |->
              DocConfig(IF objectNode.summary.kind = "StringLiteral"
                        THEN StripAllQuotes(objectNode.summary.text) ELSE <<>>,
                        IF objectNode.description.kind = "StringLiteral"
                        THEN StripAllQuotes(objectNode.description.text) ELSE <<>>,
                        IF objectNode.tags.kind = "ArrayLiteralExpression"
                        THEN TagTexts(objectNode.tags.elements) ELSE <<>>,
                        objectNode.deprecated.kind = "TrueKeyword"),
          assigned |->
              { f \in {"summary", "description"} : objectNode[f].kind = "StringLiteral" }
              \cup (IF objectNode.tags.kind = "ArrayLiteralExpression"
                    THEN {"tags"} ELSE {})
              \cup (IF objectNode.deprecated.kind \in {"TrueKeyword", "FalseKeyword"}
                    THEN {"deprecated"} ELSE {})]

hasUsefulDocConfig_TruthyOnly(parsed) ==
    \/ ~IsBlank(parsed.docConfig.summary)
    \/ ~IsBlank(parsed.docConfig.description)
    \/ Len(parsed.docConfig.tags) > 0
    \/ parsed.docConfig.deprecated

hasUsefulDocConfig(parsed) ==
    \/ ~IsBlank(parsed.docConfig.summary)
    \/ ~IsBlank(parsed.docConfig.description)
    \/ Len(parsed.docConfig.tags) > 0
    \/ "deprecated" \in parsed.assigned

\* the result of findDocMiddlewareInArgs when no argument is a doc(...) call
NoParsedConfig == [docConfig |-> NoDocConfig, assigned |-> {}]

\* the first argument that is a call of `doc` with an argument decides
RECURSIVE findDocMiddlewareInArgs(_, _)
findDocMiddlewareInArgs(args, i) ==
    IF i > Len(args) THEN NoParsedConfig
    ELSE IF /\ args[i].kind = "CallExpression"
            /\ args[i].callee = "doc"
            /\ Len(args[i].args) > 0
         THEN parseDocConfigObject(args[i].args[1])
         ELSE findDocMiddlewareInArgs(args, i + 1)

\* the body of the loop of extractDocumentationFromMiddleware for one call:
\* the markers it pushes
ExtractFromCall(call) ==
    IF /\ call.access
       /\ toLowerCase(call.name) \in httpMethods
       /\ Len(call.args) >= 2
       /\ call.args[1].kind = "StringLiteral"
    THEN LET route == StripAllQuotes(call.args[1].text)
             parsed == findDocMiddlewareInArgs(call.args, 2)
         IN  IF parsed.docConfig.defined /\ hasUsefulDocConfig(parsed)
             THEN <<RouteDoc(toLowerCase(call.name), route, parsed.docConfig)>>
             ELSE <<>>
    ELSE <<>>

\* lines of a template literal and the texts made of them
TemplateLines ==
    { <<>>, <<" ", " ">>, <<"x">>, <<" ", "x">>, <<" ", " ", "x">> }

RECURSIVE JoinLines(_)
JoinLines(lines) ==
    IF Len(lines) = 0 THEN <<>>
    ELSE IF Len(lines) = 1 THEN lines[1]
    ELSE lines[1] \o <<"\n">> \o JoinLines(Tail(lines))

TemplateTexts ==
    { JoinLines(ls) : ls \in UNION { [1..k -> TemplateLines] : k \in 1..MaxLines } }

SummaryTexts == <<"S", "u", "m">>

\* values a summary or description is written with, template literals aside
PlainValues ==
    { Absent, Identifier, StringLiteral(Quoted(SummaryTexts)),
      StringLiteral(Quoted(<<>>)), StringLiteral(<<"'", " ", "'">>) }

TagValues ==
    { Absent, ArrayLiteralExpression(<<>>),
      ArrayLiteralExpression(<<StringLiteral(Quoted(<<"T">>)), Identifier>>) }

DeprecatedValues == { Absent, TrueKeyword, FalseKeyword }

\* the objects handed to doc()
DocObjects ==
    { ObjectLiteralExpression(su, de, ta, dp) :
          su \in PlainValues,
          de \in PlainValues \cup { TemplateLiteral(t) : t \in TemplateTexts },
          ta \in TagValues, dp \in DeprecatedValues }
    \cup { ObjectLiteralExpression(TemplateLiteral(t), de, Absent, Absent) :
               t \in TemplateTexts,
               de \in { Absent, TemplateLiteral(<<" ", "\n", " ">>) } }

RouteArg == StringLiteral(Quoted(PathA))

\* the route calls of the file
DocCalls ==
    { CallExpression(TRUE, n, <<RouteArg, CallArgument("doc", <<o>>), ArrowFunction>>) :
          n \in {"get", "POST"}, o \in DocObjects }
    \cup { CallExpression(TRUE, "get", <<RouteArg, ArrowFunction>>),
           CallExpression(TRUE, "get", <<RouteArg, CallArgument("doc", <<Identifier>>),
                                         ArrowFunction>>),
           CallExpression(TRUE, "get",
               <<RouteArg, CallArgument("validator", <<Identifier>>),
                 CallArgument("doc", <<>>),
                 CallArgument("doc", <<ObjectLiteralExpression(
                     StringLiteral(Quoted(SummaryTexts)), Absent, Absent, Absent)>>),
                 ArrowFunction>>),
           CallExpression(TRUE, "use", <<RouteArg, CallArgument("doc",
               <<ObjectLiteralExpression(StringLiteral(Quoted(SummaryTexts)),
                                         Absent, Absent, Absent)>>), ArrowFunction>>) }

InitDocs ==
    /\ pc = "call"
    /\ docCall \in DocCalls
    /\ docFound = <<>>
    /\ IdlePaths
    /\ IdleResponses
    /\ IdleRun
    /\ IdleSchema
    /\ IdleServe
    /\ IdleClean

ExtractMarker ==
    /\ pc = "call"
    /\ docFound' = ExtractFromCall(docCall)
    /\ pc' = "extracted"
    /\ UNCHANGED <<docCall, notDocVars>>

NextDocs == ExtractMarker

SpecDocs == InitDocs /\ [][NextDocs]_vars

\* the lines of a text
RECURSIVE SplitLines(_)
SplitLines(text) ==
    IF \A i \in 1..Len(text) : text[i] # "\n" THEN <<text>>
    ELSE LET n == CHOOSE i \in 1..Len(text) :
                      text[i] = "\n" /\ \A j \in 1..(i - 1) : text[j] # "\n"
         IN  <<SubSeq(text, 1, n - 1)>> \o SplitLines(SubSeq(text, n + 1, Len(text)))

\* number of leading blanks of a line
Indent(line) ==
    IF IsBlank(line) THEN Len(line)
    ELSE (CHOOSE i \in 1..Len(line) :
              line[i] \notin Whitespace /\ \A j \in 1..(i - 1) : line[j] \in Whitespace) - 1

\* the text with its leading and trailing blank lines dropped, the common
\* indentation of its other lines removed and its interior blank lines
\* emptied
Dedented(text) ==
    LET lines == SplitLines(text)
        full == { i \in 1..Len(lines) : ~IsBlank(lines[i]) }
    IN  IF full = {} THEN <<>>
        ELSE LET first == CHOOSE i \in full : \A j \in full : i <= j
                 last == CHOOSE i \in full : \A j \in full : j <= i
                 common == CHOOSE n \in { Indent(lines[i]) : i \in full } :
                               \A i \in full : n <= Indent(lines[i])
             IN  JoinLines([k \in 1..(last - first + 1) |->
                     LET line == lines[first + k - 1]
                     IN  IF IsBlank(line) THEN <<>>
                         ELSE SubSeq(line, common + 1, Len(line))])

\* the route call carries doc({...}) as its first argument after the path
IsMarkedCall ==
    /\ docCall.access
    /\ toLowerCase(docCall.name) \in httpMethods
    /\ Len(docCall.args) >= 3
    /\ docCall.args[2].kind = "CallExpression"
    /\ docCall.args[2].callee = "doc"
    /\ Len(docCall.args[2].args) > 0
    /\ docCall.args[2].args[1].kind = "ObjectLiteralExpression"

MarkerObject == docCall.args[2].args[1]

IsTemplate(node) == node.kind = "NoSubstitutionTemplateLiteral"

\* the marker has a template literal and nothing but absent properties and
\* empty or whitespace-only template literals
OnlyBlankTemplates(obj) ==
    /\ \E f \in {"summary", "description"} : IsTemplate(obj[f])
    /\ \A f \in {"summary", "description"} :
           \/ obj[f] = Absent
           \/ IsTemplate(obj[f]) /\ IsBlank(obj[f].text)
    /\ obj.tags = Absent
    /\ obj.deprecated = Absent

\* C14: a summary or description written as a template literal is stored
\* as its text dedented (common leading indentation removed, relative
\* indentation and interior blank lines kept, leading and trailing blank
\* lines dropped); a marker with nothing but empty or whitespace-only
\* template literals is not indexed.
C14_TemplateLiteralsDedented ==
    (pc = "extracted" /\ IsMarkedCall) =>
        /\ \A f \in {"summary", "description"} :
               (IsTemplate(MarkerObject[f]) /\ ~IsBlank(MarkerObject[f].text)) =>
                   /\ docFound # <<>>
                   /\ docFound[1].docConfig[f] = Dedented(MarkerObject[f].text)
        /\ OnlyBlankTemplates(MarkerObject) => docFound = <<>>


\* the text between the quotes of a string literal
WrittenText(node) == SubSeq(node.text, 2, Len(node.text) - 1)

\* the marker sets a meaningful field: a summary or description that is
\* not empty after trimming, a tag, or deprecated as true or false
SetsMeaningfulField(obj) ==
    \/ \E f \in {"summary", "description"} :
           obj[f].kind = "StringLiteral" /\ ~IsBlank(WrittenText(obj[f]))
    \/ /\ obj.tags.kind = "ArrayLiteralExpression"
       /\ \E i \in 1..Len(obj.tags.elements) :
              obj.tags.elements[i].kind = "StringLiteral"
    \/ obj.deprecated.kind \in {"TrueKeyword", "FalseKeyword"}

\* C25: a doc() marker is indexed only if it sets a meaningful field (a
\* summary or description that is non-empty after trimming, a non-empty
\* tag list, or deprecated given as true or false), and then it is; doc({})
\* and doc({summary: ""}) give no entry, deprecated: false alone gives one.
C25_OnlyMeaningfulMarkersIndexed ==
    (pc = "extracted" /\ IsMarkedCall) =>
        (docFound # <<>> <=> SetsMeaningfulField(MarkerObject))

\* C25 witness: doc({deprecated: false}) is indexed
C25_Witness ==
    /\ pc = "extracted"
    /\ IsMarkedCall
    /\ MarkerObject = ObjectLiteralExpression(Absent, Absent, Absent, FalseKeyword)
    /\ Len(docFound) = 1
    /\ ~docFound[1].docConfig.deprecated

(***************************************************************************)
(* SpecSchema: buildSchema applied to one resolved type                    *)
(***************************************************************************)
LitA == StringLiteralType("a")
LitB == StringLiteralType("b")

\* the types a union is made of
MemberTypes ==
    {LitA, LitB, NullType, UndefinedType, StringType, NumberType, OtherType,
     ArrayOf(StringType), ObjectType(<< Property("p", StringType, FALSE) >>)}

\* a union holds each of its members once
Unions ==
    { UnionOf(ms) : ms \in { s \in Str(MemberTypes, MaxMembers) :
                                /\ Len(s) >= 2
                                /\ \A i, j \in 1..Len(s) : s[i] = s[j] => i = j } }

PairUnions == { u \in Unions : Len(u.types) = 2 /\ u.types[1] \in {LitA, NullType} }

ObjectTypes ==
    { ObjectType(<< Property("p", t, o1), Property("q", NumberType, o2) >>) :
          t \in {StringType, BooleanType} \cup PairUnions, o1, o2 \in BOOLEAN }

InputTypes ==
    MemberTypes \cup {BooleanType} \cup Unions
        \cup { ArrayOf(u) : u \in PairUnions } \cup ObjectTypes

InitSchema ==
    /\ pc = "type"
    /\ inputType \in InputTypes
    /\ builtSchema = EmptySchema
    /\ IdlePaths
    /\ IdleResponses
    /\ IdleRun
    /\ IdleDocs
    /\ IdleServe
    /\ IdleClean

BuildSchema ==
    /\ pc = "type"
    /\ builtSchema' = buildSchema(inputType)
    /\ pc' = "built"
    /\ UNCHANGED <<inputType, notSchemaVars>>

NextSchema == BuildSchema

SpecSchema == InitSchema /\ [][NextSchema]_vars

\* the claims' reading of a union
NullOrUndefined(u) == u.kind = "null" \/ u.kind = "undefined"

LiteralOrNullOnly(ms) ==
    \A i \in 1..Len(ms) : ms[i].kind = "stringLiteral" \/ NullOrUndefined(ms[i])

RECURSIVE LiteralValues(_)
LiteralValues(ms) ==
    IF ms = <<>> THEN <<>>
    ELSE (IF Head(ms).kind = "stringLiteral" THEN <<Head(ms).value>> ELSE <<>>)
             \o LiteralValues(Tail(ms))

RECURSIVE SchemasOfOthers(_)
SchemasOfOthers(ms) ==
    IF ms = <<>> THEN <<>>
    ELSE (IF NullOrUndefined(Head(ms)) THEN <<>> ELSE <<buildSchema(Head(ms))>>)
             \o SchemasOfOthers(Tail(ms))

StringEnum(ms) ==
    /\ builtSchema.keys = {"type", "enum"}
                        \cup (IF \E i \in 1..Len(ms) : NullOrUndefined(ms[i])
                              THEN {"nullable"} ELSE {})
    /\ builtSchema.type = "string"
    /\ builtSchema.enum = LiteralValues(ms)
    /\ ("nullable" \in builtSchema.keys) => builtSchema.nullable

OneOfOthers(ms) ==
    /\ builtSchema.keys = {"oneOf"}
    /\ builtSchema.oneOf = SchemasOfOthers(ms)

\* C19 as stated: a union of string literals and null/undefined only,
\* the union of just null and undefined included, gives
\* {type: 'string', enum: [the literal values in member order]} with
\* nullable: true exactly when a member is null or undefined; any other
\* union gives {oneOf: [buildSchema(m) for the members m that are neither
\* null nor undefined, in order]}.
C19_UnionSchemaAsStated ==
    (pc = "built" /\ inputType.kind = "union") =>
        IF LiteralOrNullOnly(inputType.types)
        THEN StringEnum(inputType.types)
        ELSE OneOfOthers(inputType.types)

\* C19: a union of string literals and null/undefined only that has at
\* least one string literal gives {type: 'string', enum: [the literal
\* values in member order]} with nullable: true exactly when a member is
\* null or undefined; any other union, the union of just null and undefined
\* included, gives {oneOf: [buildSchema(m) for the members m that are
\* neither null nor undefined, in order]}.
C19_UnionSchema ==
    (pc = "built" /\ inputType.kind = "union") =>
        IF LiteralOrNullOnly(inputType.types)
               /\ LiteralValues(inputType.types) # <<>>
        THEN StringEnum(inputType.types)
        ELSE OneOfOthers(inputType.types)

\* C19 witness: "a" | "b" | null gives the nullable enum of a and b
C19_Witness ==
    /\ pc = "built"
    /\ inputType = UnionOf(<<LitA, LitB, NullType>>)
    /\ builtSchema.keys = {"type", "enum", "nullable"}
    /\ builtSchema.enum = <<"a", "b">>


(***************************************************************************)
(* SpecServe: one request to the serveOpenAPI middleware                   *)
(***************************************************************************)
NoConfigFound ==
    "No hono-docs config file found. Expected hono-docs.config.ts, hono-docs.config.js, or hono-docs.config.mjs"
SpecNotFound == "OpenAPI spec not found at outputPath. Set regenerate: true to auto-generate."
FailedToGenerate == "Failed to generate OpenAPI spec at outputPath"
FailedToServe == "Failed to serve OpenAPI spec"
LoadConfigMessage == "config load error"
RunGenerateMessage == "generation error"
SyntaxErrorMessage == "Unexpected token in JSON"

ErrorResponse_Rethrown(status, message, details) == NoResponse

\* c.json(body, status)
ErrorResponse(status, message, details) ==
    [status |-> status, error |-> message, details |-> details, json |-> ""]
JsonResponse(value) ==
    [status |-> 200, error |-> "", details |-> "", json |-> value]

\* JSON.parse of the content of the file: the document it encodes, or a
\* SyntaxError
JSONparse(file) ==
    IF file = "invalid" THEN [ok |-> FALSE, value |-> ""]
    ELSE IF file = "generated" THEN [ok |-> TRUE, value |-> "generated document"]
    ELSE [ok |-> TRUE, value |-> "existing document"]

regenerateOf_IgnoresOption(opts) == TRUE

\* const { regenerate = true } = options
regenerateOf(opts) ==
    IF opts.regenerate = "unset" THEN TRUE ELSE opts.regenerate = "true"

\* the output file after runGenerate(resolvedConfigPath) resolved
AfterRunGenerate(d) ==
    IF d.runGenerate = "writes" THEN "generated" ELSE "absent"

\* what one request does: the response, the number of runGenerate calls
\* and the output file it leaves
serveOpenAPI(opts, d) ==
    LET answer(r, calls, file) ==
            [response |-> r, generateCalls |-> calls, outputFile |-> file]
        serve(file, calls) ==
            IF JSONparse(file).ok
            THEN answer(JsonResponse(JSONparse(file).value), calls, file)
            ELSE answer(ErrorResponse(500, FailedToServe, SyntaxErrorMessage),
                        calls, file)
    IN  IF opts.config = "" /\ ~d.configFound
        THEN answer(ErrorResponse(500, NoConfigFound, ""), 0, d.output)
        ELSE IF d.configLoad = "rejects"
        THEN answer(ErrorResponse(500, FailedToServe, LoadConfigMessage),
                    0, d.output)
        ELSE IF d.output # "absent" THEN serve(d.output, 0)
        ELSE IF ~regenerateOf(opts)
        THEN answer(ErrorResponse(404, SpecNotFound, ""), 0, d.output)
        ELSE IF d.runGenerate = "rejects"
        THEN answer(ErrorResponse(500, FailedToServe, RunGenerateMessage),
                    1, d.output)
        ELSE IF AfterRunGenerate(d) = "absent"
        THEN answer(ErrorResponse(500, FailedToGenerate, ""), 1, "absent")
        ELSE serve(AfterRunGenerate(d), 1)

Options == [config : {"", "./custom-config.ts"},
            regenerate : {"unset", "true", "false"}]

Disks == [configFound : BOOLEAN, configLoad : {"ok", "rejects"},
          output : {"absent", "valid", "invalid"},
          runGenerate : {"writes", "rejects", "writesNothing"}]

InitServe ==
    /\ pc = "request"
    /\ options \in Options
    /\ disk \in Disks
    /\ outputFile = disk.output
    /\ generateCalls = 0
    /\ response = NoResponse
    /\ IdlePaths
    /\ IdleResponses
    /\ IdleRun
    /\ IdleDocs
    /\ IdleSchema
    /\ IdleClean

Serve ==
    /\ pc = "request"
    /\ LET done == serveOpenAPI(options, disk)
       IN  /\ response' = done.response
           /\ generateCalls' = done.generateCalls
           /\ outputFile' = done.outputFile
    /\ pc' = "responded"
    /\ UNCHANGED <<options, disk, notServeVars>>

NextServe == Serve

SpecServe == InitServe /\ [][NextServe]_vars

\* the config file was found and loaded, so the output path is known
OutputPathResolved ==
    /\ options.config # "" \/ disk.configFound
    /\ disk.configLoad = "ok"

\* runGenerate is called only when the file is missing and `regenerate`
\* is not false; a missing file with regenerate: false is answered 404
GenerateOnlyWhenMissing ==
    /\ generateCalls > 0 =>
           disk.output = "absent" /\ options.regenerate # "false"
    /\ (OutputPathResolved /\ disk.output = "absent"
            /\ options.regenerate = "false") =>
           response.status = 404 /\ generateCalls = 0

ServedExisting ==
    /\ response.status = 200
    /\ response.json = "existing document"
    /\ generateCalls = 0

\* C20 as stated: the middleware calls runGenerate only when the OpenAPI
\* file is missing at the resolved output path and regenerate is not
\* false; when the file exists the answer is 200 with the parsed file
\* content and runGenerate is never called; when the file is missing and
\* regenerate is false the answer is 404 and runGenerate is never called.
C20_ExistingFileAlwaysServed ==
    pc = "responded" =>
        /\ GenerateOnlyWhenMissing
        /\ (OutputPathResolved /\ disk.output # "absent") => ServedExisting

\* C20: the middleware calls runGenerate only when the OpenAPI file is
\* missing at the resolved output path and regenerate is not false; when
\* the file exists runGenerate is never called and the answer is 200 with
\* the parsed file content if the content is valid JSON, 500 if it is not;
\* when the file is missing and regenerate is false the answer is 404 and
\* runGenerate is never called.
C20_GenerateOnlyWhenMissing ==
    pc = "responded" =>
        /\ GenerateOnlyWhenMissing
        /\ (OutputPathResolved /\ disk.output = "valid") => ServedExisting
        /\ (OutputPathResolved /\ disk.output = "invalid") =>
               response.status = 500 /\ generateCalls = 0

\* C20 witness: an existing, well-formed file is served with regenerate
\* left at its default
C20_Witness ==
    /\ pc = "responded"
    /\ OutputPathResolved
    /\ disk.output = "valid"
    /\ options.regenerate = "unset"
    /\ ServedExisting

ConfigResolved == options.config # "" \/ disk.configFound

\* the request reaches runGenerate
Regenerating ==
    /\ OutputPathResolved
    /\ disk.output = "absent"
    /\ options.regenerate # "false"

Answered500(details) ==
    /\ response.status = 500
    /\ response.error # ""
    /\ response.details = details

\* C21: no exception escapes the middleware: when no config file is found,
\* loadConfig rejects, runGenerate rejects, the file is still missing after
\* generation or the file content is not valid JSON, the answer has status
\* 500 and a body with an 'error' field, and with the error message as
\* 'details' when an error was thrown.
C21_FailuresAnswered500 ==
    pc = "responded" =>
        /\ response.status \in {200, 404, 500}
        /\ ~ConfigResolved => Answered500("")
        /\ (ConfigResolved /\ disk.configLoad = "rejects") =>
               Answered500(LoadConfigMessage)
        /\ (Regenerating /\ disk.runGenerate = "rejects") =>
               Answered500(RunGenerateMessage)
        /\ (Regenerating /\ disk.runGenerate = "writesNothing") =>
               Answered500("")
        /\ (OutputPathResolved /\ disk.output = "invalid") =>
               Answered500(SyntaxErrorMessage)

\* C21 witness: runGenerate was called and rejected, and the answer is 500
\* with its message
C21_Witness ==
    /\ pc = "responded"
    /\ Regenerating
    /\ disk.runGenerate = "rejects"
    /\ generateCalls = 1
    /\ Answered500(RunGenerateMessage)


(***************************************************************************)
(* SpecClean: cleanDefaultResponse applied to one operation                *)
(***************************************************************************)
Status200 == <<"2", "0", "0">>

\* descriptions: a plain one, the fallback text, and dumps of a type
Descriptions ==
    { <<>>, <<"Status 200">>, <<"Default fallback response">>,
      <<"import(">>, <<"typeof ", "import(", "\"hono\").X">> }

ResponseObjects ==
    [description : Descriptions,
     content : {JsonContent, EmptyContent, NoContent},
     schema : {PrimSchema("object")}]

\* op.responses: no response, or responses under 'default' and '200'
ResponseMaps ==
    UNION { [codes -> ResponseObjects] :
                codes \in {{}, {DefaultKey}, {Status200}, {DefaultKey, Status200}} }

Operations ==
    { [NewOperation EXCEPT !.summary = <<"Sum">>, !.tags = t, !.responses = r] :
          t \in {<<>>, <<"X">>}, r \in ResponseMaps }

InitClean ==
    /\ pc = "operation"
    /\ opBefore \in Operations
    /\ opAfter = NewOperation
    /\ IdlePaths
    /\ IdleResponses
    /\ IdleRun
    /\ IdleDocs
    /\ IdleSchema
    /\ IdleServe

CleanDefaultResponse ==
    /\ pc = "operation"
    /\ opAfter' = cleanDefaultResponse(opBefore)
    /\ pc' = "cleaned"
    /\ UNCHANGED <<opBefore, notCleanVars>>

NextClean == CleanDefaultResponse

SpecClean == InitClean /\ [][NextClean]_vars

\* the operation has a 'default' response whose description is a type dump
HasDumpedDefault(op) ==
    /\ DefaultKey \in DOMAIN op.responses
    /\ \E i \in 1..Len(op.responses[DefaultKey].description) :
           op.responses[DefaultKey].description[i] = "import("

HasContent(r) == r.content.defined /\ r.content.keys # <<>>

\* everything but the responses is as before
SameButResponses ==
    \A f \in DOMAIN opBefore \ {"responses"} : opAfter[f] = opBefore[f]

\* C27: cleanDefaultResponse changes an operation only when it has a
\* 'default' response whose description contains 'import(': then the
\* description becomes 'Default fallback response' if the response has
\* non-empty content, and the 'default' entry is removed if its content is
\* absent or empty; in every other case, and for every response other than
\* 'default', the operation is left unchanged.
C27_CleanChangesOnlyDumpedDefault ==
    pc = "cleaned" =>
        /\ SameButResponses
        /\ \A code \in DOMAIN opBefore.responses \ {DefaultKey} :
               /\ code \in DOMAIN opAfter.responses
               /\ opAfter.responses[code] = opBefore.responses[code]
        /\ DOMAIN opAfter.responses \subseteq DOMAIN opBefore.responses
        /\ ~HasDumpedDefault(opBefore) => opAfter = opBefore
        /\ HasDumpedDefault(opBefore) =>
               IF HasContent(opBefore.responses[DefaultKey])
               THEN /\ DefaultKey \in DOMAIN opAfter.responses
                    /\ opAfter.responses[DefaultKey].description
                           = <<"Default fallback response">>
                    /\ opAfter.responses[DefaultKey].content
                           = opBefore.responses[DefaultKey].content
                    /\ opAfter.responses[DefaultKey].schema
                           = opBefore.responses[DefaultKey].schema
               ELSE DefaultKey \notin DOMAIN opAfter.responses

\* C27 witness: a dumped 'default' response with empty content is removed
\* and the '200' response next to it stays
C27_Witness ==
    /\ pc = "cleaned"
    /\ HasDumpedDefault(opBefore)
    /\ opBefore.responses[DefaultKey].content = EmptyContent
    /\ DOMAIN opBefore.responses = {DefaultKey, Status200}
    /\ DOMAIN opAfter.responses = {Status200}

====
